---- MODULE Spec2Model ----
(***************************************************************************)
(* A model of the screenshot service: the ScreenshotOne capture stage with *)
(* its two-tier proxy fallback (screenshots/capture.py), the service       *)
(* functions that chain capture and upload (api/services), the ZenRows     *)
(* raw-byte capture (api/services/zenrows_service.py), the Cloudinary      *)
(* upload (screenshots/upload.py), the storage backends                    *)
(* (screenshots/storage.py), the bearer-token dependency                   *)
(* (api/dependencies/auth.py) and the routes (api/routes/screenshot.py).   *)
(*                                                                         *)
(* One behaviour is one process serving one request.  Python strings are   *)
(* sequences of tokens (a token is a character or an indivisible chunk of  *)
(* text), so that concatenation, slicing, strip() and "contains" are       *)
(* computed and not assumed.  Byte strings are sequences of 0..255.        *)
(***************************************************************************)
EXTENDS Integers, Sequences, FiniteSets, TLC

VARIABLES
    env,          \* os.environ as read by os.getenv
    op,           \* the entry point serving the request
    req,          \* the arguments of the entry point
    pc,           \* position of the request in the code
    attempts,     \* invocations of _call_screenshotone_api / the ZenRows capture, in order
    http,         \* outbound HTTP requests issued, in order
    inflight,     \* outbound HTTP requests issued and not yet answered
    result,       \* the local variable `result` of the retry functions
    returned,     \* per tier, what the tier's capture call returned (None: nothing)
    e,            \* the exception bound by `except Exception as e`
    retry_error,  \* the exception bound by `except Exception as retry_error`
    screenshot_url, \* the local `screenshot_url` / `image_bytes` handed to the upload stage
    uploads,      \* calls of cloudinary.uploader.upload, in order
    img_response, \* the answer to the image download of upload_screenshot_from_url
    image_bytes,  \* the local `image_bytes` of capture_and_upload_with_zenrows
    calls,        \* per thread, the call of a storage backend's upload_bytes it runs
    backends,     \* the StorageBackend objects get_storage_backend has constructed
    config_calls, \* how many times cloudinary.config was called by a backend
    writes,       \* calls of a backend's storage write (uploader.upload, put_object)
    response,     \* the HTTP response of the route that serves the request
    outcome       \* what the entry point returned or raised

vars == <<env, op, req, pc, attempts, http, inflight, result, returned, e, retry_error,
          screenshot_url, uploads, img_response, image_bytes, calls, backends, config_calls,
          writes, response, outcome>>

---------------------------------------------------------------------------
(* Python values *)

\* Python's None, distinct from every string (the empty string is <<>>).
None == <<"<None>">>

\* bool(x) of an Optional[str]: None and "" are falsy.
Truthy(s) == s # None /\ s # <<>>

\* `a or b`
Or(a, b) == IF Truthy(a) THEN a ELSE b

\* s[:n]
Take(s, n) == SubSeq(s, 1, IF Len(s) < n THEN Len(s) ELSE n)

\* s.startswith(p)
StartsWith(s, p) == Len(p) <= Len(s) /\ SubSeq(s, 1, Len(p)) = p

\* `needle in hay` for strings
Contains(hay, needle) ==
    \E i \in 0..(Len(hay) - Len(needle)) : SubSeq(hay, i + 1, i + Len(needle)) = needle

IsSpace(c) == c \in {" ", "\t", "\n"}

RECURSIVE LStrip(_)
LStrip(s) == IF s # <<>> /\ IsSpace(Head(s)) THEN LStrip(Tail(s)) ELSE s

RECURSIVE RStrip(_)
RStrip(s) ==
    IF s # <<>> /\ IsSpace(s[Len(s)]) THEN RStrip(SubSeq(s, 1, Len(s) - 1)) ELSE s

\* s.strip()
Strip(s) == RStrip(LStrip(s))

---------------------------------------------------------------------------
(* Exceptions: a class name and str(exception) *)

Err(type, msg) == [type |-> type, msg |-> msg]

NoErr == Err("", <<>>)

\* isinstance(x, requests.exceptions.RequestException).  requests' JSONDecodeError
\* derives from both RequestException and ValueError.
IsRequestException(x) ==
    x.type \in {"RequestException", "HTTPError", "ConnectionError", "JSONDecodeError"}

\* isinstance(x, ValueError)
IsValueError(x) == x.type \in {"ValueError", "JSONDecodeError"}

\* A bytes variable that is not bound yet (no byte is negative)
NoBytes == <<-1>>

\* The image download has not been answered yet (no status is negative)
NoResponse == [net |-> FALSE, status |-> -1, content |-> <<>>]

\* The fields of the routes' response models; a model without a field, and an
\* error response, hold None there.
NoBody == [uploaded_url |-> None, screenshot_url |-> None, url |-> None, folder |-> None]

\* The route has not answered (no HTTP status is 0)
NoReply == [status |-> 0, detail |-> <<>>, body |-> NoBody]

\* What a function call ended with: a returned value or a raised exception.
Return(v) == [ok |-> TRUE, value |-> v, err |-> NoErr]

Raise(x) == [ok |-> FALSE, value |-> None, err |-> x]

---------------------------------------------------------------------------
(* The environment and the capture provider's answers *)

BasicProxyValue == <<"http://basic.proxy.example">>

AdvancedProxyValue == <<"http://unlocker.proxy.example">>

CallerProxyValue == <<"http://caller.proxy.example">>

\* The folder argument of a request and the value of CLOUDINARY_FOLDER
CallerFolderValue == <<"shots", "/", "2024">>

EnvFolderValue == <<"default-folder">>

\* A default_folder argument of upload_screenshot_from_url
DefaultFolderValue == <<"argument-folder">>

UrlA == <<"https://", "cache.example", "/", "a.jpg">>

UrlB == <<"https://", "cache.example", "/", "b.jpg">>

TargetUrl == <<"https://", "example.com", "/", "a">>

\* HTTP statuses the providers answer with: success, a non-200 that
\* raise_for_status lets through, a client error and a server error.
Statuses == {200, 202, 403, 500}

\* Statuses the host of the captured image answers the download with: success,
\* a 3xx that is not a redirect to follow, a client error and a server error.
DownloadStatuses == {200, 304, 403, 500}

StatusStr(s) ==
    CASE s = 200 -> "200"
      [] s = 202 -> "202"
      [] s = 304 -> "304"
      [] s = 403 -> "403"
      [] s = 500 -> "500"
      [] OTHER -> "0"

Reason(s) ==
    CASE s = 200 -> "OK"
      [] s = 202 -> "Accepted"
      [] s = 304 -> "Not Modified"
      [] s = 403 -> "Forbidden"
      [] s = 500 -> "Internal Server Error"
      [] OTHER -> ""

\* response.text[:500]
TextLimit == 500

\* random.randint(1, 10): the port appended to the basic proxy
RandLo == 1

RandHi == 10

PortStr(n) == <<"1", "2", "3", "4", "5", "6", "7", "8", "9", "10">>[n]

\* An environment variable is unset (None) or holds its value.
EnvValues(v) == {None, v}

\* The keys of the provider's JSON answers that the code reads; `other`
\* stands for any key the code does not read.  A key that is absent holds None.
Keys == <<"screenshot", "screenshot_url", "cache_url", "error_message",
          "returned_status_code", "error_code", "other">>

KeySet == {Keys[i] : i \in 1..Len(Keys)}

EmptyDict == [k \in KeySet |-> None]

\* bool(d) of a dict
DictTruthy(d) == \E k \in KeySet : d[k] # None

\* `k in d`
HasKey(d, k) == d[k] # None

RECURSIVE DictItems(_, _)
DictItems(d, i) ==
    IF i > Len(Keys) THEN <<>>
    ELSE (IF HasKey(d, Keys[i]) THEN <<Keys[i], ": ">> \o d[Keys[i]] \o <<", ">> ELSE <<>>)
         \o DictItems(d, i + 1)

\* str(d) and json.dumps(d): the keys present with their values
DictText(d) == <<"{">> \o DictItems(d, 1) \o <<"}">>

\* What a URL field of a 200 answer may hold: absent, empty, blank, a URL.
UrlFieldValues == {None, <<>>, <<" ">>, UrlA, UrlB}

Bodies200 ==
    {[EmptyDict EXCEPT !["screenshot"] = a, !["screenshot_url"] = b, !["cache_url"] = c] :
        a \in UrlFieldValues, b \in UrlFieldValues, c \in UrlFieldValues}

ErrBodies ==
    {[EmptyDict EXCEPT !["error_message"] = a, !["returned_status_code"] = b,
                       !["error_code"] = c, !["other"] = o] :
        a \in {None, <<"The request failed">>}, b \in {None, <<"403">>},
        c \in {None, <<"content_contains_blocked">>}, o \in {None, <<"x">>}}

HtmlText == <<"<", "html>blocked</html>">>

\* requests.get raised (connection error, timeout): no response object
NetFailure ==
    [net |-> FALSE, status |-> 0, parsed |-> FALSE, data |-> EmptyDict, text |-> <<>>]

\* Every answer of https://api.screenshotone.com/take the model draws from
Responses ==
    {NetFailure}
    \cup {[net |-> TRUE, status |-> 200, parsed |-> TRUE, data |-> d, text |-> DictText(d)] :
            d \in Bodies200}
    \cup {[net |-> TRUE, status |-> s, parsed |-> FALSE, data |-> EmptyDict, text |-> HtmlText] :
            s \in Statuses}
    \cup {[net |-> TRUE, status |-> s, parsed |-> TRUE, data |-> d, text |-> DictText(d)] :
            s \in Statuses \ {200}, d \in ErrBodies}

---------------------------------------------------------------------------
(* screenshots/capture.py: _call_screenshotone_api *)

ApiUrl == <<"https://", "api.screenshotone.com", "/", "take">>

\* call_prepare with the proxy argument ignored: the environment's basic proxy
\* is used whatever the caller passed.
call_prepare_ignores_proxy(ev, proxy) ==
    IF ~Truthy(ev.SCREENSHOTONE_ACCESS_KEY)
    THEN Raise(Err("ValueError",
                   <<"SCREENSHOTONE_ACCESS_KEY not found in environment variables">>))
    ELSE Return(IF Truthy(ev.SCREENSHOTONE_PROXY) THEN ev.SCREENSHOTONE_PROXY ELSE None)

\* Lines 39-72: the access key check and the choice of the proxy parameter.
\* Returns the value of params['proxy'] (None: no proxy parameter is sent).
call_prepare(ev, proxy) ==
    IF ~Truthy(ev.SCREENSHOTONE_ACCESS_KEY)
    THEN Raise(Err("ValueError",
                   <<"SCREENSHOTONE_ACCESS_KEY not found in environment variables">>))
    ELSE LET p == IF proxy = None THEN ev.SCREENSHOTONE_PROXY ELSE proxy
         IN  Return(IF Truthy(p) THEN p ELSE None)

\* Lines 59-69: the items of the dict display, in the order they are written
ParamItems(access_key, url) ==
    << <<"access_key", access_key>>,
       <<"url", url>>,
       <<"response_type", <<"json">>>>,
       <<"format", <<"jpeg">>>>,
       <<"image_quality", <<"70">>>>,
       <<"cache", <<"true">>>>,
       <<"cache_ttl", <<"2505600">>>>,
       <<"fail_if_content_contains", <<"Verify you are human">>>>,
       <<"fail_if_content_contains", <<"blocked">>>> >>

\* A dict display: a key written more than once holds the value written last.
DictDisplay(items) ==
    [k \in {items[i][1] : i \in DOMAIN items} |->
        items[CHOOSE i \in DOMAIN items :
                 /\ items[i][1] = k
                 /\ \A j \in DOMAIN items : items[j][1] = k => j <= i][2]]

\* Lines 59-72: the query parameters of the request, given the value of
\* params['proxy'] that call_prepare chose (None: no proxy parameter)
request_params(access_key, url, proxy) ==
    LET params == DictDisplay(ParamItems(access_key, url))
    IN  IF proxy = None THEN params
        ELSE [k \in DOMAIN params \cup {"proxy"} |->
                 IF k = "proxy" THEN proxy ELSE params[k]]

\* response.raise_for_status(): raises HTTPError for 4xx and 5xx only
raise_for_status(resp, url) ==
    IF resp.status >= 400 /\ resp.status < 500
    THEN Raise(Err("HTTPError", <<StatusStr(resp.status), " Client Error: ",
                                  Reason(resp.status), " for url: ">> \o url))
    ELSE IF resp.status >= 500 /\ resp.status < 600
    THEN Raise(Err("HTTPError", <<StatusStr(resp.status), " Server Error: ",
                                  Reason(resp.status), " for url: ">> \o url))
    ELSE Return(None)

\* Lines 85-98: the message built for a non-200 answer
error_msg(resp) ==
    LET response_json == IF resp.parsed THEN resp.data ELSE EmptyDict
    IN  <<"API Error ", StatusStr(resp.status)>>
        \o (IF DictTruthy(response_json)
            THEN (IF HasKey(response_json, "error_message")
                  THEN <<": ">> \o response_json["error_message"] ELSE <<>>)
                 \o (IF HasKey(response_json, "returned_status_code")
                     THEN <<" (target site returned ">>
                          \o response_json["returned_status_code"] \o <<")">>
                     ELSE <<>>)
                 \o (IF HasKey(response_json, "error_code")
                     THEN <<" [Error Code: ">> \o response_json["error_code"] \o <<"]">>
                     ELSE <<>>)
                 \o <<"\nFull error details: ">> \o DictText(response_json)
            ELSE <<": ">> \o Take(resp.text, TextLimit))

\* extract_url with the fields read in the opposite order
extract_url_prefers_cache(data) ==
    Or(data["cache_url"], Or(data["screenshot_url"], data["screenshot"]))

\* data.get('screenshot') or data.get('screenshot_url') or data.get('cache_url')
extract_url(data) == Or(data["screenshot"], Or(data["screenshot_url"], data["cache_url"]))

\* Lines 74-124: what the call ends with, given the provider's answer
call_finish(resp) ==
    IF ~resp.net THEN Raise(Err("ConnectionError", <<"connection failed">>))
    ELSE IF resp.status # 200
    THEN (IF ~raise_for_status(resp, ApiUrl).ok THEN raise_for_status(resp, ApiUrl)
          ELSE Raise(Err("RequestException", error_msg(resp))))
    ELSE IF ~resp.parsed
    THEN Raise(Err("JSONDecodeError", <<"Expecting value: line 1 column 1 (char 0)">>))
    ELSE IF ~Truthy(extract_url(resp.data))
    THEN Raise(Err("ValueError",
                   <<"No screenshot URL in response: ">> \o DictText(resp.data)))
    ELSE Return(extract_url(resp.data))

---------------------------------------------------------------------------
(* The request and the process environment *)

Ops == {"capture_screenshot_url", "capture_and_upload_screenshot", "take_screenshot",
        "capture_and_upload_with_zenrows"}

UsesScreenshotOne(o) ==
    o \in {"capture_screenshot_url", "capture_and_upload_screenshot", "take_screenshot"}

UsesCloudinary(o) == o \in {"capture_and_upload_screenshot", "capture_and_upload_with_zenrows"}

\* A variable the entry point never reads is left unset.
ValuesIf(used, v) == IF used THEN EnvValues(v) ELSE {None}

\* The three Cloudinary credentials: all set, or one of them missing (the
\* first missing one decides what _validate_cloudinary_config raises).
CloudinaryEnvs(used) ==
    IF ~used THEN {<<None, None, None>>}
    ELSE {<<(<<"cloud">>), (<<"ck">>), (<<"cs">>)>>,
          <<None, (<<"ck">>), (<<"cs">>)>>,
          <<(<<"cloud">>), None, (<<"cs">>)>>,
          <<(<<"cloud">>), (<<"ck">>), None>>}

EnvsFor(o) ==
    {[SCREENSHOTONE_ACCESS_KEY |-> k, SCREENSHOTONE_PROXY |-> b, WEB_UNLOCKER_PROXY |-> a,
      ZENROWS_API_KEY |-> z, CLOUDINARY_CLOUD_NAME |-> c[1], CLOUDINARY_API_KEY |-> c[2],
      CLOUDINARY_API_SECRET |-> c[3], CLOUDINARY_FOLDER |-> None] :
        k \in ValuesIf(UsesScreenshotOne(o), <<"sk">>),
        b \in ValuesIf(UsesScreenshotOne(o), BasicProxyValue),
        a \in ValuesIf(UsesScreenshotOne(o), AdvancedProxyValue),
        z \in ValuesIf(o = "capture_and_upload_with_zenrows", <<"zk">>),
        c \in CloudinaryEnvs(UsesCloudinary(o))}

UsesProxyArgument(o) == o \in {"capture_screenshot_url", "capture_and_upload_screenshot"}

\* The arguments of the entry point.  take_screenshot has neither a proxy nor
\* a use_retry argument: it always runs the tiered retry.  The ZenRows capture
\* has no proxy tiers at all.  The folder is left to its default here; the
\* relay specification below draws it and CLOUDINARY_FOLDER.
RequestsFor(o) ==
    {[url |-> TargetUrl, proxy |-> p, use_retry |-> r, folder |-> None] :
        p \in IF UsesProxyArgument(o) THEN {None, <<>>, CallerProxyValue} ELSE {None},
        r \in IF UsesProxyArgument(o) THEN BOOLEAN ELSE {TRUE}}

\* What only the storage backends of screenshots/storage.py write
storage == <<calls, backends, config_calls, writes>>

\* The threads that call a storage backend
Threads == {1, 2}

NoArgs == [provider |-> None, data |-> <<>>, folder |-> None, key |-> None,
           content_type |-> <<"image/", "jpeg">>]

\* A thread that calls no storage backend
IdleCall == [pc |-> "idle", args |-> NoArgs, backend |-> 0, key |-> None, parts |-> <<>>,
             raised |-> NoErr, outcome |-> Return(None)]

\* No storage backend exists: nothing of this repository calls get_storage_backend.
StorageIdle ==
    /\ calls = [t \in Threads |-> IdleCall]
    /\ backends = <<>>
    /\ config_calls = 0
    /\ writes = <<>>

Init ==
    /\ op \in Ops
    /\ env \in EnvsFor(op)
    /\ req \in RequestsFor(op)
    /\ pc = "entry"
    /\ attempts = <<>>
    /\ http = <<>>
    /\ inflight = {}
    /\ result = None
    /\ returned = [basic |-> None, advanced |-> None]
    /\ e = NoErr
    /\ retry_error = NoErr
    /\ screenshot_url = None
    /\ uploads = <<>>
    /\ img_response = NoResponse
    /\ image_bytes = NoBytes
    /\ response = NoReply
    /\ StorageIdle
    /\ outcome = Return(None)

const == <<env, op, req>>

\* What only the tiered retry writes
locals == <<result, returned, e, retry_error>>

\* What only upload_screenshot_from_url and capture_and_upload_with_zenrows write
relay == <<img_response, image_bytes>>

---------------------------------------------------------------------------
(* api/services: the choice between the tiered retry and the direct call *)

\* UsesRetry with the `proxy is None` test dropped
UsesRetry_IgnoresProxy(r) == r.use_retry

\* screenshot_service.py 31-38, upload_service.py 39-44
UsesRetry(r) == r.use_retry /\ r.proxy = None

Dispatch ==
    /\ pc = "entry"
    /\ pc' = IF op = "capture_and_upload_with_zenrows" THEN "zenrows_call"
             ELSE IF UsesRetry(req) THEN "basic_call" ELSE "direct_call"
    /\ UNCHANGED <<const, storage, response, relay, attempts, http, inflight, result, returned, e, retry_error,
                   screenshot_url, uploads, outcome>>

\* The entry point has the screenshot URL `v`: capture_screenshot_url returns
\* it, capture_and_upload_screenshot goes on to upload_screenshot_from_url.
Succeed(v) ==
    IF op = "capture_and_upload_screenshot"
    THEN /\ screenshot_url' = v
         /\ pc' = "upload_from_url"
         /\ UNCHANGED outcome
    ELSE /\ outcome' = Return(v)
         /\ pc' = "done"
         /\ UNCHANGED screenshot_url

\* An exception leaves the entry point.
Fail(x) ==
    /\ outcome' = Raise(x)
    /\ pc' = "done"

---------------------------------------------------------------------------
(* screenshots/capture.py: get_screenshot_url_with_retry *)

\* Line 297: simple_proxy + f":{random_number}" if simple_proxy else None
proxy_with_random(simple_proxy, n) ==
    IF Truthy(simple_proxy) THEN simple_proxy \o <<":", PortStr(n)>> ELSE None

\* Lines 302 and 326: not result or not isinstance(result, str) or not result.strip()
InvalidResult(r) == ~Truthy(r) \/ ~Truthy(Strip(r))

\* SimpleFailedError without the original error
SimpleFailedError_DropsOriginal(err) ==
    Err("Exception", <<"Simple proxy failed and ", "WEB_UNLOCKER_PROXY", " not found. ">>)

\* Lines 316-319
SimpleFailedError(err) ==
    Err("Exception", <<"Simple proxy failed and ", "WEB_UNLOCKER_PROXY", " not found. ",
                       "Original error: ">> \o err.msg)

\* BothFailedError reporting the advanced tier's error only
BothFailedError_DropsSimple(err, retry) ==
    Err("Exception", <<"Both simple and advanced proxy attempts failed. ",
                       "Advanced proxy error: ">> \o retry.msg)

\* Lines 334-338
BothFailedError(err, retry) ==
    Err("Exception", <<"Both simple and advanced proxy attempts failed. ",
                       "Simple proxy error: ">> \o err.msg
                     \o <<". ", "Advanced proxy error: ">> \o retry.msg)

\* AdvancedReturn with the advanced tier's value not stored in `result`
AdvancedReturn_KeepsPrevious(previous, new) == previous

\* Lines 323 and 330: `result = get_screenshot_url(...)` then `return result`
AdvancedReturn(previous, new) == new

\* Lines 290-299 with _call_screenshotone_api 39-74: the basic-tier call is made
BasicCall ==
    /\ pc = "basic_call"
    /\ \E n \in RandLo..RandHi :
        LET p == proxy_with_random(env.SCREENSHOTONE_PROXY, n)
            prep == call_prepare(env, p)
        IN  /\ attempts' = Append(attempts, [tier |-> "basic", proxy |-> p])
            /\ IF prep.ok
               THEN /\ http' = Append(http, [api |-> "screenshotone", tier |-> "basic",
                                             proxy |-> prep.value,
                                             params |-> request_params(env.SCREENSHOTONE_ACCESS_KEY,
                                                                       req.url, prep.value)])
                    /\ inflight' = inflight \cup {"basic"}
                    /\ pc' = "basic_wait"
                    /\ UNCHANGED e
               ELSE /\ e' = prep.err
                    /\ pc' = "basic_failed"
                    /\ UNCHANGED <<http, inflight>>
    /\ UNCHANGED <<const, storage, response, relay, result, returned, retry_error, screenshot_url, uploads, outcome>>

\* BasicReceive with the fallback run after a success too (a `finally:` in
\* place of the `except`)
BasicReceive_FallsThrough ==
    /\ pc = "basic_wait"
    /\ op # "take_screenshot"
    /\ \E resp \in Responses :
        LET r == call_finish(resp)
        IN  /\ inflight' = inflight \ {"basic"}
            /\ result' = IF r.ok THEN r.value ELSE result
            /\ returned' = [returned EXCEPT !.basic = r.value]
            /\ IF r.ok /\ ~InvalidResult(r.value)
               THEN /\ pc' = "advanced_call"
                    /\ UNCHANGED e
               ELSE /\ e' = IF r.ok
                            THEN Err("ValueError",
                                     <<"Invalid screenshot URL returned from basic proxy: ">>
                                     \o r.value)
                            ELSE r.err
                    /\ pc' = "basic_failed"
    /\ UNCHANGED <<const, storage, response, relay, attempts, http, retry_error, uploads, screenshot_url, outcome>>

\* _call_screenshotone_api 76-124 and lines 299-309: the basic-tier answer
BasicReceive ==
    /\ pc = "basic_wait"
    /\ op # "take_screenshot"
    /\ \E resp \in Responses :
        LET r == call_finish(resp)
        IN  /\ inflight' = inflight \ {"basic"}
            /\ IF r.ok /\ ~InvalidResult(r.value)
               THEN /\ result' = r.value
                    /\ returned' = [returned EXCEPT !.basic = r.value]
                    /\ Succeed(r.value)
                    /\ UNCHANGED e
               ELSE /\ result' = IF r.ok THEN r.value ELSE result
                    /\ returned' = [returned EXCEPT !.basic = r.value]
                    /\ e' = IF r.ok
                            THEN Err("ValueError",
                                     <<"Invalid screenshot URL returned from basic proxy: ">>
                                     \o r.value)
                            ELSE r.err
                    /\ pc' = "basic_failed"
                    /\ UNCHANGED <<screenshot_url, outcome>>
    /\ UNCHANGED <<const, storage, response, relay, attempts, http, retry_error, uploads>>

\* BasicFailed with a ValueError re-raised instead of falling back
BasicFailed_ReraisesValueError ==
    /\ pc = "basic_failed"
    /\ IF IsValueError(e) THEN Fail(e)
       ELSE IF ~Truthy(env.WEB_UNLOCKER_PROXY)
       THEN Fail(Err("Exception", <<"Simple proxy failed and ", "WEB_UNLOCKER_PROXY",
                                    " not found. ", "Original error: ">> \o e.msg))
       ELSE /\ pc' = "advanced_call"
            /\ UNCHANGED outcome
    /\ UNCHANGED <<const, storage, response, relay, attempts, http, inflight, result, returned, e, retry_error,
                   screenshot_url, uploads>>

\* Lines 309-319: the handler of the basic tier's failure
BasicFailed ==
    /\ pc = "basic_failed"
    /\ IF ~Truthy(env.WEB_UNLOCKER_PROXY)
       THEN Fail(SimpleFailedError(e))
       ELSE /\ pc' = "advanced_call"
            /\ UNCHANGED outcome
    /\ UNCHANGED <<const, storage, response, relay, attempts, http, inflight, result, returned, e, retry_error,
                   screenshot_url, uploads>>

\* AdvancedCall with the request sent before the access key is looked at
AdvancedCall_SendsWithoutKey ==
    /\ pc = "advanced_call"
    /\ LET better_proxy == env.WEB_UNLOCKER_PROXY
       IN  /\ attempts' = Append(attempts, [tier |-> "advanced", proxy |-> better_proxy])
           /\ http' = Append(http, [api |-> "screenshotone", tier |-> "advanced",
                                    proxy |-> better_proxy,
                                    params |-> request_params(env.SCREENSHOTONE_ACCESS_KEY,
                                                              req.url, better_proxy)])
           /\ inflight' = inflight \cup {"advanced"}
           /\ pc' = "advanced_wait"
           /\ UNCHANGED retry_error
    /\ UNCHANGED <<const, storage, response, relay, result, returned, e, screenshot_url, uploads, outcome>>

\* Lines 321-323 with _call_screenshotone_api 39-74: the advanced-tier call is made
AdvancedCall ==
    /\ pc = "advanced_call"
    /\ LET better_proxy == env.WEB_UNLOCKER_PROXY
           prep == call_prepare(env, better_proxy)
       IN  /\ attempts' = Append(attempts, [tier |-> "advanced", proxy |-> better_proxy])
           /\ IF prep.ok
              THEN /\ http' = Append(http, [api |-> "screenshotone", tier |-> "advanced",
                                            proxy |-> prep.value,
                                             params |-> request_params(env.SCREENSHOTONE_ACCESS_KEY,
                                                                       req.url, prep.value)])
                   /\ inflight' = inflight \cup {"advanced"}
                   /\ pc' = "advanced_wait"
                   /\ UNCHANGED retry_error
              ELSE /\ retry_error' = prep.err
                   /\ pc' = "advanced_failed"
                   /\ UNCHANGED <<http, inflight>>
    /\ UNCHANGED <<const, storage, response, relay, result, returned, e, screenshot_url, uploads, outcome>>

\* _call_screenshotone_api 76-124 and lines 323-332: the advanced-tier answer
AdvancedReceive ==
    /\ pc = "advanced_wait"
    /\ op # "take_screenshot"
    /\ \E resp \in Responses :
        LET r == call_finish(resp)
        IN  /\ inflight' = inflight \ {"advanced"}
            /\ IF r.ok /\ ~InvalidResult(r.value)
               THEN /\ result' = AdvancedReturn(result, r.value)
                    /\ returned' = [returned EXCEPT !.advanced = r.value]
                    /\ Succeed(AdvancedReturn(result, r.value))
                    /\ UNCHANGED retry_error
               ELSE /\ result' = IF r.ok THEN r.value ELSE result
                    /\ returned' = [returned EXCEPT !.advanced = r.value]
                    /\ retry_error' =
                         IF r.ok
                         THEN Err("ValueError",
                                  <<"Invalid screenshot URL returned from WEB_UNLOCKER_PROXY: ">>
                                  \o r.value)
                         ELSE r.err
                    /\ pc' = "advanced_failed"
                    /\ UNCHANGED <<screenshot_url, outcome>>
    /\ UNCHANGED <<const, storage, response, relay, attempts, http, e, uploads>>

\* AdvancedFailed with the advanced tier tried again instead of giving up
AdvancedFailed_RetriesAgain ==
    /\ pc = "advanced_failed"
    /\ pc' = "advanced_call"
    /\ UNCHANGED <<const, storage, response, relay, attempts, http, inflight, result, returned, e, retry_error,
                   screenshot_url, uploads, outcome>>

\* Lines 332-338: the handler of the advanced tier's failure
AdvancedFailed ==
    /\ pc = "advanced_failed"
    /\ Fail(BothFailedError(e, retry_error))
    /\ UNCHANGED <<const, storage, response, relay, attempts, http, inflight, result, returned, e, retry_error,
                   screenshot_url, uploads>>

---------------------------------------------------------------------------
(* screenshots/capture.py: get_screenshot_url, the direct call *)

\* Line 195 with _call_screenshotone_api 39-74
DirectCall ==
    /\ pc = "direct_call"
    /\ LET prep == call_prepare(env, req.proxy)
       IN  /\ attempts' = Append(attempts, [tier |-> "direct", proxy |-> req.proxy])
           /\ IF prep.ok
              THEN /\ http' = Append(http, [api |-> "screenshotone", tier |-> "direct",
                                            proxy |-> prep.value,
                                             params |-> request_params(env.SCREENSHOTONE_ACCESS_KEY,
                                                                       req.url, prep.value)])
                   /\ inflight' = inflight \cup {"direct"}
                   /\ pc' = "direct_wait"
                   /\ UNCHANGED outcome
              ELSE /\ Fail(prep.err)
                   /\ UNCHANGED <<http, inflight>>
    /\ UNCHANGED <<const, storage, response, relay, result, returned, e, retry_error, screenshot_url, uploads>>

\* DirectReceive with the upload stage entered whatever the capture ended with
DirectReceive_UploadsOnFailure ==
    /\ pc = "direct_wait"
    /\ \E resp \in Responses :
        LET r == call_finish(resp)
        IN  /\ inflight' = inflight \ {"direct"}
            /\ IF r.ok
               THEN Succeed(r.value)
               ELSE IF op = "capture_and_upload_screenshot"
               THEN /\ pc' = "upload_from_url"
                    /\ UNCHANGED <<screenshot_url, outcome>>
               ELSE /\ Fail(r.err)
                    /\ UNCHANGED screenshot_url
    /\ UNCHANGED <<const, storage, response, relay, attempts, http, result, returned, e, retry_error, uploads>>

\* _call_screenshotone_api 76-124, returned or raised through get_screenshot_url
DirectReceive ==
    /\ pc = "direct_wait"
    /\ \E resp \in Responses :
        LET r == call_finish(resp)
        IN  /\ inflight' = inflight \ {"direct"}
            /\ IF r.ok
               THEN Succeed(r.value)
               ELSE /\ Fail(r.err)
                    /\ UNCHANGED screenshot_url
    /\ UNCHANGED <<const, storage, response, relay, attempts, http, result, returned, e, retry_error, uploads>>

---------------------------------------------------------------------------
(* screenshots/capture.py: capture_screenshot and take_screenshot *)

\* requests refuses a URL without a scheme before it sends anything.
IsHttpUrl(u) == StartsWith(u, <<"https://">>) \/ StartsWith(u, <<"http://">>)

InvalidUrlError(u) ==
    Err("RequestException", <<"Invalid URL '">> \o u \o <<"': No scheme supplied">>)

RECURSIVE Replace(_, _, _)
\* s.replace(tok, by), token by token
Replace(s, tok, by) ==
    IF s = <<>> THEN <<>>
    ELSE (IF Head(s) = tok THEN by ELSE <<Head(s)>>) \o Replace(Tail(s), tok, by)

\* Slug with a suffix that counts the uploads already made by the process
Slug_CountsUploads(url, n) ==
    Take(Replace(Replace(Replace(url, "https://", <<>>), "http://", <<>>), "/", <<"_">>), n)
    \o (IF uploads = <<>> THEN <<>> ELSE <<"_1">>)

\* url.replace('https://', '').replace('http://', '').replace('/', '_')[:n]
Slug(url, n) ==
    Take(Replace(Replace(Replace(url, "https://", <<>>), "http://", <<>>), "/", <<"_">>), n)

\* capture.py 158: the file name is cut to 50 characters
FileNameLimit == 50

\* Lines 157-159: SCREENSHOT_DIR / filename
output_path(url) == <<"output/screenshots", "/">> \o Slug(url, FileNameLimit) \o <<".jpeg">>

\* What the download of the image and the write of the file end with.
DownloadAnswers ==
    {[net |-> n, status |-> s, content |-> c, saved |-> w] :
        n \in BOOLEAN, s \in DownloadStatuses, c \in {<<255, 216, 255, 224>>}, w \in BOOLEAN}

\* Lines 151-174, given the answer to requests.get(screenshot_url, timeout=30)
capture_download(url, target, ans) ==
    IF ~ans.net
    THEN Raise(Err("RequestException",
                   <<"Error downloading screenshot: ", "connection failed">>))
    ELSE IF ~raise_for_status(ans, url).ok
    THEN Raise(Err("RequestException",
                   <<"Error downloading screenshot: ">> \o raise_for_status(ans, url).err.msg))
    ELSE IF ~ans.saved
    THEN Raise(Err("Exception", <<"Error saving screenshot: ", "Permission denied">>))
    ELSE Return(output_path(target))

\* A tier's attempt failed in take_screenshot or get_screenshot_url_with_retry:
\* the exception is bound as `e` (basic) or `retry_error` (advanced).
TierFailed(tier, x) ==
    IF tier = "basic"
    THEN /\ e' = x
         /\ pc' = "basic_failed"
         /\ UNCHANGED retry_error
    ELSE /\ retry_error' = x
         /\ pc' = "advanced_failed"
         /\ UNCHANGED e

\* capture_screenshot 149-153 inside take_screenshot 228 / 252: the provider's
\* answer arrives and the image download is started
TakeReceive(tier) ==
    /\ pc = tier \o "_wait"
    /\ op = "take_screenshot"
    /\ \E resp \in Responses :
        LET r == call_finish(resp)
        IN  /\ IF r.ok /\ IsHttpUrl(r.value)
               THEN /\ screenshot_url' = r.value
                    /\ http' = Append(http, [api |-> "image", tier |-> tier, proxy |-> None])
                    /\ inflight' = (inflight \ {tier}) \cup {tier \o "_download"}
                    /\ pc' = tier \o "_download"
                    /\ UNCHANGED <<e, retry_error>>
               ELSE /\ TierFailed(tier, IF r.ok
                                        THEN Err("RequestException",
                                                 <<"Error downloading screenshot: ">>
                                                 \o InvalidUrlError(r.value).msg)
                                        ELSE r.err)
                    /\ inflight' = inflight \ {tier}
                    /\ UNCHANGED <<http, screenshot_url>>
    /\ UNCHANGED <<const, storage, response, relay, attempts, result, returned, uploads, outcome>>

\* capture_screenshot 153-174 and take_screenshot 228-238 / 252-261
TakeDownload(tier) ==
    /\ pc = tier \o "_download"
    /\ \E ans \in DownloadAnswers :
        LET r == capture_download(screenshot_url, req.url, ans)
        IN  /\ inflight' = inflight \ {tier \o "_download"}
            /\ IF r.ok
               THEN /\ result' = r.value
                    /\ returned' = [returned EXCEPT ![tier] = r.value]
                    /\ outcome' = Return(r.value)
                    /\ pc' = "done"
                    /\ UNCHANGED <<e, retry_error>>
               ELSE /\ TierFailed(tier, r.err)
                    /\ UNCHANGED <<result, returned, outcome>>
    /\ UNCHANGED <<const, storage, response, relay, attempts, http, screenshot_url, uploads>>

TakeBasicReceive == TakeReceive("basic")

TakeBasicDownload == TakeDownload("basic")

TakeAdvancedReceive == TakeReceive("advanced")

TakeAdvancedDownload == TakeDownload("advanced")

---------------------------------------------------------------------------
(* screenshots/upload.py *)

\* Lines 25-34
validate_cloudinary_config(ev) ==
    IF ~Truthy(ev.CLOUDINARY_CLOUD_NAME)
    THEN Raise(Err("ValueError",
                   <<"CLOUDINARY_CLOUD_NAME not found in environment variables">>))
    ELSE IF ~Truthy(ev.CLOUDINARY_API_KEY)
    THEN Raise(Err("ValueError",
                   <<"CLOUDINARY_API_KEY not found in environment variables">>))
    ELSE IF ~Truthy(ev.CLOUDINARY_API_SECRET)
    THEN Raise(Err("ValueError",
                   <<"CLOUDINARY_API_SECRET not found in environment variables">>))
    ELSE Return(None)

\* upload.py 169 and zenrows_service.py 138: the public_id is cut to 100 characters
PublicIdLimit == 100

UploadedUrl == <<"https://", "res.cloudinary.com", "/", "x.jpg">>

\* What cloudinary.uploader.upload ends with: an exception, or a result that
\* holds secure_url, url, both or neither.
CloudinaryAnswers ==
    {[raised |-> TRUE, secure_url |-> None, url |-> None]}
    \cup {[raised |-> FALSE, secure_url |-> s, url |-> u] :
            s \in {None, UploadedUrl}, u \in {None, <<"http://", "res.cloudinary.com">>}}

\* Lines 75-84 of upload_image_from_bytes, given the uploader's answer
upload_finish(ans) ==
    IF ans.raised
    THEN Raise(Err("Exception", <<"Cloudinary upload failed: ", "Error 401">>))
    ELSE IF ~Truthy(Or(ans.secure_url, ans.url))
    THEN Raise(Err("Exception", <<"Cloudinary upload failed: ",
                                  "Cloudinary upload succeeded but no URL returned">>))
    ELSE Return(Or(ans.secure_url, ans.url))

\* upload_screenshot_from_url 182-187: what an exception of the try block becomes
wrap_from_url(x) ==
    IF IsRequestException(x)
    THEN Err("RequestException", <<"Error downloading image: ">> \o x.msg)
    ELSE Err("Exception", <<"Cloudinary upload failed: ">> \o x.msg)

\* api/config.py 31: CLOUDINARY_FOLDER = os.getenv("CLOUDINARY_FOLDER", "")
CLOUDINARY_FOLDER(ev) == IF ev.CLOUDINARY_FOLDER = None THEN <<>> ELSE ev.CLOUDINARY_FOLDER

\* upload_folder with the default folder taken before the request's folder
upload_folder_PrefersDefault(folder, default_folder, ev) ==
    IF Truthy(default_folder) THEN default_folder
    ELSE IF Truthy(folder) THEN folder
    ELSE ev.CLOUDINARY_FOLDER

\* upload_screenshot_from_url 158-160: the folder the image is uploaded to
upload_folder(folder, default_folder, ev) ==
    IF Truthy(folder) THEN folder
    ELSE IF Truthy(default_folder) THEN default_folder
    ELSE ev.CLOUDINARY_FOLDER

\* The default_folder argument of upload_screenshot_from_url: its caller's
\* own, or CLOUDINARY_FOLDER when capture_and_upload_screenshot calls it
\* (upload_service.py 49-53)
default_folder_argument ==
    IF op = "upload_screenshot_from_url" THEN req.default_folder ELSE CLOUDINARY_FOLDER(env)

\* upload_image_from_bytes 60-68: an option is passed when its value is truthy
upload_option(v) == IF Truthy(v) THEN v ELSE None

\* What the image host answers the download of upload_screenshot_from_url
\* with: nothing (requests.get raises), or a status and the bytes.
ImageAnswers ==
    {[net |-> FALSE, status |-> 0, content |-> <<>>]}
    \cup {[net |-> TRUE, status |-> s, content |-> c] :
            s \in DownloadStatuses, c \in {<<255, 216, 255, 224>>, <<71, 73, 70>>}}

\* upload_image_from_bytes 57-73: the credentials are checked and the uploader
\* is called with the image
UploadBytes(image, folder, public_id, wrapped) ==
    LET v == validate_cloudinary_config(env)
    IN  IF v.ok
        THEN /\ uploads' = Append(uploads, [image_bytes |-> image,
                                            folder |-> upload_option(folder),
                                            public_id |-> upload_option(public_id)])
             /\ inflight' = (inflight \ {"download", "zenrows"}) \cup {"upload"}
             /\ pc' = "upload_wait"
             /\ UNCHANGED outcome
        ELSE /\ Fail(IF wrapped THEN wrap_from_url(v.err) ELSE v.err)
             /\ inflight' = inflight \ {"download", "zenrows"}
             /\ UNCHANGED uploads

\* upload_screenshot_from_url 155-165: credentials, then the image download
UploadFromUrl ==
    /\ pc = "upload_from_url"
    /\ LET v == validate_cloudinary_config(env)
       IN  IF ~v.ok
           THEN /\ Fail(v.err)
                /\ UNCHANGED <<http, inflight>>
           ELSE IF ~IsHttpUrl(screenshot_url)
           THEN /\ Fail(wrap_from_url(InvalidUrlError(screenshot_url)))
                /\ UNCHANGED <<http, inflight>>
           ELSE /\ http' = Append(http, [api |-> "image", tier |-> "download",
                                         proxy |-> None])
                /\ inflight' = inflight \cup {"download"}
                /\ pc' = "download_wait"
                /\ UNCHANGED outcome
    /\ UNCHANGED <<const, storage, response, relay, attempts, result, returned, e, retry_error, screenshot_url,
                   uploads>>

\* upload_screenshot_from_url 165-176: the download's answer, then the upload call
DownloadReceive ==
    /\ pc = "download_wait"
    /\ \E ans \in ImageAnswers :
        /\ img_response' = ans
        /\ IF ~ans.net
           THEN /\ Fail(wrap_from_url(Err("ConnectionError", <<"connection failed">>)))
                /\ inflight' = inflight \ {"download"}
                /\ UNCHANGED uploads
           ELSE IF ~raise_for_status(ans, screenshot_url).ok
           THEN /\ Fail(wrap_from_url(raise_for_status(ans, screenshot_url).err))
                /\ inflight' = inflight \ {"download"}
                /\ UNCHANGED uploads
           ELSE UploadBytes(ans.content,
                            upload_folder(req.folder, default_folder_argument, env),
                            Slug(screenshot_url, PublicIdLimit), TRUE)
    /\ UNCHANGED <<const, storage, response, attempts, http, result, returned, e, retry_error,
                   screenshot_url,
                   image_bytes>>

\* upload_image_from_bytes 70-84 and its callers' handling of what it raises
UploadReceive ==
    /\ pc = "upload_wait"
    /\ \E ans \in CloudinaryAnswers :
        LET r == upload_finish(ans)
        IN  /\ inflight' = inflight \ {"upload"}
            /\ pc' = "done"
            /\ outcome' =
                 IF r.ok THEN r
                 ELSE IF op \in {"capture_and_upload_screenshot", "upload_screenshot_from_url"}
                 THEN Raise(wrap_from_url(r.err))
                 ELSE r
    /\ UNCHANGED <<const, storage, response, relay, attempts, http, result, returned, e, retry_error, screenshot_url,
                   uploads>>

---------------------------------------------------------------------------
(* api/services/zenrows_service.py *)

\* The bytes the model builds ZenRows answers from: those of the JPEG and PNG
\* signatures, '{' and '<'.
ByteAlphabet == {255, 216, 137, 80, 78, 71, 123, 60}

MaxPayloadLen == 4

RECURSIVE SeqsUpTo(_, _)
SeqsUpTo(S, n) ==
    IF n = 0 THEN {<<>>}
    ELSE SeqsUpTo(S, n - 1)
         \cup {Append(s, x) : s \in {q \in SeqsUpTo(S, n - 1) : Len(q) = n - 1}, x \in S}

Payloads == SeqsUpTo(ByteAlphabet, MaxPayloadLen)

\* One character of response.text for one byte of response.content
Chr(b) ==
    CASE b = 123 -> "{"
      [] b = 60 -> "<"
      [] b = 80 -> "P"
      [] b = 78 -> "N"
      [] b = 71 -> "G"
      [] OTHER -> "\\ufffd"

\* response.text
Text(content) == [i \in 1..Len(content) |-> Chr(content[i])]

\* Bodies of the non-200 answers and the answers as a whole
ZenErrorBodies == {<<>>, <<60, 60>>, <<123, 123>>}

ZenResponses ==
    {[net |-> FALSE, status |-> 0, content |-> <<>>]}
    \cup {[net |-> TRUE, status |-> 200, content |-> c] : c \in Payloads}
    \cup {[net |-> TRUE, status |-> s, content |-> c] :
            s \in Statuses \ {200}, c \in ZenErrorBodies}

\* zenrows_service.py 84: response.content[:20]
FirstBytesLen == 20

JpegMagic == <<255, 216, 255>>

PngMagic == <<137, 80, 78, 71>>

is_jpeg(content) == StartsWith(Take(content, FirstBytesLen), JpegMagic)

is_png(content) == StartsWith(Take(content, FirstBytesLen), PngMagic)

\* looks_like_error that knows JSON bodies only
looks_like_error_json_only(content) == StartsWith(Take(content, FirstBytesLen), <<123>>)

\* Line 92: first_bytes.startswith(b'{') or first_bytes.startswith(b'<')
looks_like_error(content) ==
    \/ StartsWith(Take(content, FirstBytesLen), <<123>>)
    \/ StartsWith(Take(content, FirstBytesLen), <<60>>)

\* Lines 83-105: what becomes of the content of a 200 answer
validate_image(content) ==
    IF content # <<>> /\ ~(is_jpeg(content) \/ is_png(content)) /\ looks_like_error(content)
    THEN Raise(Err("ValueError", <<"ZenRows API returned an error instead of an image: ">>
                                 \o Take(Text(content), TextLimit)))
    ELSE IF content = <<>>
    THEN Raise(Err("ValueError", <<"ZenRows API returned empty response">>))
    ELSE Return(content)

\* Lines 62-105, given the provider's answer
zenrows_finish(resp) ==
    IF ~resp.net
    THEN Raise(Err("RequestException", <<"ZenRows API request failed: ", "connection failed">>))
    ELSE IF resp.status # 200
    THEN Raise(Err("RequestException",
                   <<"ZenRows API request failed with status ", StatusStr(resp.status), ": ">>
                   \o (IF Text(resp.content) # <<>> THEN Take(Text(resp.content), TextLimit)
                       ELSE <<"No error message provided">>)))
    ELSE validate_image(resp.content)

\* capture_screenshot_with_zenrows 37-69: the key check and the request
ZenrowsCall ==
    /\ pc = "zenrows_call"
    /\ attempts' = Append(attempts, [tier |-> "zenrows", proxy |-> None])
    /\ IF ~Truthy(env.ZENROWS_API_KEY)
       THEN /\ Fail(Err("ValueError", <<"ZENROWS_API_KEY not found in environment variables">>))
            /\ UNCHANGED <<http, inflight>>
       ELSE /\ http' = Append(http, [api |-> "zenrows", tier |-> "zenrows", proxy |-> None])
            /\ inflight' = inflight \cup {"zenrows"}
            /\ pc' = "zenrows_wait"
            /\ UNCHANGED outcome
    /\ UNCHANGED <<const, storage, response, relay, result, returned, e, retry_error, screenshot_url, uploads>>

\* capture_screenshot_with_zenrows 62-105, then capture_and_upload_with_zenrows
\* 133-144 with upload_image_from_bytes 57-73
ZenrowsReceive ==
    /\ pc = "zenrows_wait"
    /\ \E resp \in ZenResponses :
        LET r == zenrows_finish(resp)
        IN  IF r.ok
            THEN /\ image_bytes' = r.value
                 /\ UploadBytes(r.value, req.folder, Slug(req.url, PublicIdLimit), FALSE)
            ELSE /\ Fail(r.err)
                 /\ inflight' = inflight \ {"zenrows"}
                 /\ UNCHANGED <<uploads, image_bytes>>
    /\ UNCHANGED <<const, storage, response, attempts, http, result, returned, e, retry_error,
                   screenshot_url,
                   img_response>>

---------------------------------------------------------------------------

Next ==
    \/ Dispatch
    \/ BasicCall
    \/ BasicReceive
    \/ BasicFailed
    \/ AdvancedCall
    \/ AdvancedReceive
    \/ AdvancedFailed
    \/ DirectCall
    \/ DirectReceive
    \/ TakeBasicReceive
    \/ TakeBasicDownload
    \/ TakeAdvancedReceive
    \/ TakeAdvancedDownload
    \/ UploadFromUrl
    \/ DownloadReceive
    \/ UploadReceive
    \/ ZenrowsCall
    \/ ZenrowsReceive

Spec == Init /\ [][Next]_vars

\* The steps that are bound to happen: what the process does on its own, and
\* the end of every external call made with a timeout (requests.get with
\* timeout=60 for ZenRows and timeout=30 for the image downloads, the uploader
\* call), which is answered or raises Timeout.  The answer to
\* requests.get('https://api.screenshotone.com/take', params=params), made
\* without a timeout, is not among them: it blocks for as long as the provider
\* stays silent.
BoundedSteps ==
    \/ Dispatch
    \/ BasicCall
    \/ BasicFailed
    \/ AdvancedCall
    \/ AdvancedFailed
    \/ DirectCall
    \/ TakeBasicDownload
    \/ TakeAdvancedDownload
    \/ UploadFromUrl
    \/ DownloadReceive
    \/ UploadReceive
    \/ ZenrowsCall
    \/ ZenrowsReceive

\* One request served by a process whose providers may stay silent
LiveSpec == Init /\ [][Next]_vars /\ WF_vars(BoundedSteps)

---------------------------------------------------------------------------
(* upload_screenshot_from_url called on its own, request after request *)

\* The image URLs handed to the relay: two hosted images, one without a scheme
RelayUrls == {UrlA, UrlB, <<"cache.example", "/", "a.jpg">>}

\* How many relay requests one process serves in the model
MaxRuns == 2

RelayInit ==
    /\ op = "upload_screenshot_from_url"
    /\ env \in {[SCREENSHOTONE_ACCESS_KEY |-> None, SCREENSHOTONE_PROXY |-> None,
                  WEB_UNLOCKER_PROXY |-> None, ZENROWS_API_KEY |-> None,
                  CLOUDINARY_CLOUD_NAME |-> c[1], CLOUDINARY_API_KEY |-> c[2],
                  CLOUDINARY_API_SECRET |-> c[3], CLOUDINARY_FOLDER |-> f] :
                    c \in CloudinaryEnvs(TRUE), f \in {None, <<>>, EnvFolderValue}}
    /\ req \in {[url |-> None, proxy |-> None, use_retry |-> FALSE, folder |-> f,
                   default_folder |-> d] :
                    f \in {None, <<>>, CallerFolderValue},
                    d \in {None, <<>>, DefaultFolderValue}}
    /\ screenshot_url \in RelayUrls
    /\ pc = "upload_from_url"
    /\ attempts = <<>>
    /\ http = <<>>
    /\ inflight = {}
    /\ result = None
    /\ returned = [basic |-> None, advanced |-> None]
    /\ e = NoErr
    /\ retry_error = NoErr
    /\ uploads = <<>>
    /\ img_response = NoResponse
    /\ image_bytes = NoBytes
    /\ response = NoReply
    /\ StorageIdle
    /\ outcome = Return(None)

\* The request has ended and the next one arrives, for the same image URL and
\* folder: the locals of the call start afresh, the process goes on.
RelayAgain ==
    /\ pc = "done"
    /\ op = "upload_screenshot_from_url"
    /\ Len(http) < MaxRuns
    /\ pc' = "upload_from_url"
    /\ img_response' = NoResponse
    /\ outcome' = Return(None)
    /\ UNCHANGED <<const, storage, response, image_bytes, attempts, http, inflight, result, returned, e, retry_error,
                   screenshot_url, uploads>>

RelayNext ==
    \/ UploadFromUrl
    \/ DownloadReceive
    \/ UploadReceive
    \/ RelayAgain

RelaySpec == RelayInit /\ [][RelayNext]_vars

---------------------------------------------------------------------------
(* The answer handling of the two capture calls, applied to every answer *)

\* op is the function, req the provider's answer it receives, outcome what it
\* returns or raises.
FunctionInit ==
    /\ \/ op = "_call_screenshotone_api" /\ req \in Responses
       \/ op = "capture_screenshot_with_zenrows" /\ req \in ZenResponses
    /\ env = [SCREENSHOTONE_ACCESS_KEY |-> <<"sk">>, SCREENSHOTONE_PROXY |-> None,
              WEB_UNLOCKER_PROXY |-> None, ZENROWS_API_KEY |-> <<"zk">>,
              CLOUDINARY_CLOUD_NAME |-> None, CLOUDINARY_API_KEY |-> None,
              CLOUDINARY_API_SECRET |-> None, CLOUDINARY_FOLDER |-> None]
    /\ pc = "answer"
    /\ attempts = <<>>
    /\ http = <<>>
    /\ inflight = {}
    /\ result = None
    /\ returned = [basic |-> None, advanced |-> None]
    /\ e = NoErr
    /\ retry_error = NoErr
    /\ screenshot_url = None
    /\ uploads = <<>>
    /\ img_response = NoResponse
    /\ image_bytes = NoBytes
    /\ response = NoReply
    /\ StorageIdle
    /\ outcome = Return(None)

\* _call_screenshotone_api 74-124
ScreenshotOneAnswer ==
    /\ pc = "answer"
    /\ op = "_call_screenshotone_api"
    /\ outcome' = call_finish(req)
    /\ pc' = "done"
    /\ UNCHANGED <<const, storage, response, relay, attempts, http, inflight, result, returned, e, retry_error,
                   screenshot_url, uploads>>

\* capture_screenshot_with_zenrows 62-105
ZenrowsAnswer ==
    /\ pc = "answer"
    /\ op = "capture_screenshot_with_zenrows"
    /\ outcome' = zenrows_finish(req)
    /\ pc' = "done"
    /\ UNCHANGED <<const, storage, response, relay, attempts, http, inflight, result, returned, e, retry_error,
                   screenshot_url, uploads>>

FunctionNext ==
    \/ ScreenshotOneAnswer
    \/ ZenrowsAnswer

FunctionSpec == FunctionInit /\ [][FunctionNext]_vars

---------------------------------------------------------------------------
(* screenshots/storage.py: the helpers of the two backends.  Provider names, *)
(* prefixes, folders and keys are sequences of single characters here.       *)

\* s.lstrip(c), s.rstrip(c), s.strip(c) for a one-character c
RECURSIVE LStripChar(_, _)
LStripChar(s, c) == IF s # <<>> /\ Head(s) = c THEN LStripChar(Tail(s), c) ELSE s

RECURSIVE RStripChar(_, _)
RStripChar(s, c) ==
    IF s # <<>> /\ s[Len(s)] = c THEN RStripChar(SubSeq(s, 1, Len(s) - 1), c) ELSE s

StripChar(s, c) == RStripChar(LStripChar(s, c), c)

UpperCase == <<"A", "B", "C", "D", "E", "F", "G", "H", "I", "J", "K", "L", "M",
               "N", "O", "P", "Q", "R", "S", "T", "U", "V", "W", "X", "Y", "Z">>

LowerCase == <<"a", "b", "c", "d", "e", "f", "g", "h", "i", "j", "k", "l", "m",
               "n", "o", "p", "q", "r", "s", "t", "u", "v", "w", "x", "y", "z">>

Digits == {"0", "1", "2", "3", "4", "5", "6", "7", "8", "9"}

LowerChar(c) ==
    IF \E i \in 1..Len(UpperCase) : UpperCase[i] = c
    THEN LowerCase[CHOOSE i \in 1..Len(UpperCase) : UpperCase[i] = c]
    ELSE c

\* s.lower()
Lower(s) == [i \in 1..Len(s) |-> LowerChar(s[i])]

\* The regular expression class \w on the characters of the model
IsWordChar(c) ==
    \/ \E i \in 1..Len(LowerCase) : c = LowerCase[i] \/ c = UpperCase[i]
    \/ c \in Digits
    \/ c = "_"

\* What re.sub(r"[^\w\-./]", "", key) keeps
IsKeptChar(c) == IsWordChar(c) \/ c \in {"-", ".", "/"}

\* storage.py 95: key[:200]
KeyLimit == 200

\* s.replace(c, d) for one-character c and d
ReplaceChar(s, c, d) == [i \in 1..Len(s) |-> IF s[i] = c THEN d ELSE s[i]]

\* _sanitize_key that keeps every character
sanitize_key_KeepsAll(key) ==
    LET cut == Take(ReplaceChar(key, " ", "_"), KeyLimit)
    IN  IF cut = <<>> THEN <<"i", "m", "a", "g", "e">> ELSE cut

\* storage.py 91-95
sanitize_key(key) ==
    LET cut == Take(SelectSeq(ReplaceChar(key, " ", "_"), IsKeptChar), KeyLimit)
    IN  IF cut = <<>> THEN <<"i", "m", "a", "g", "e">> ELSE cut

\* "/".join(p for p in parts if p)
RECURSIVE JoinNonEmpty(_)
JoinNonEmpty(parts) ==
    IF parts = <<>> THEN <<>>
    ELSE IF Head(parts) = <<>> THEN JoinNonEmpty(Tail(parts))
    ELSE LET rest == JoinNonEmpty(Tail(parts))
         IN  IF rest = <<>> THEN Head(parts) ELSE Head(parts) \o <<"/">> \o rest

\* S3Backend.__init__ 113: the prefix the backend keeps
s3_prefix(prefix) ==
    IF Truthy(prefix) THEN LStripChar(StripChar(prefix, "/") \o <<"/">>, "/") ELSE <<>>

\* S3Backend.__init__ 110-112: the delivery domain the backend keeps
s3_domain(cloudfront_domain) ==
    LET d == RStripChar(cloudfront_domain, "/")
    IN  IF d # <<>> /\ Head(d) \in {"https://", "http://"} THEN d ELSE <<"https://">> \o d

\* upload_bytes 141-144: the parts the object key is joined from
s3_parts(prefix, folder, key) ==
    <<RStripChar(prefix, "/")>>
    \o (IF Truthy(folder) THEN <<StripChar(folder, "/")>> ELSE <<>>)
    \o <<key>>

\* upload_bytes 145
s3_object_key(parts) == LStripChar(JoinNonEmpty(parts), "/")

\* s3_ext that takes every image for a JPEG
s3_ext_AlwaysJpg(content_type) == <<"j", "p", "g">>

\* upload_bytes 136: the extension of a generated key
s3_ext(content_type) == IF Contains(content_type, <<"jpeg">>) THEN <<"j", "p", "g">>
                        ELSE <<"p", "n", "g">>

\* api/config.py 25 and 35-38: os.getenv(name, default) read at import
ConfigValue(v, default) == IF v = None THEN default ELSE v

\* The two provider names get_storage_backend knows
CloudinaryName == <<"c", "l", "o", "u", "d", "i", "n", "a", "r", "y">>

AwsName == <<"a", "w", "s">>

\* effective_provider that falls back to Cloudinary for a name it does not know
effective_provider_defaulting(provider, ev) ==
    LET name == Lower(Or(provider, Or(ev.STORAGE_PROVIDER,
                   Or(ConfigValue(ev.STORAGE_PROVIDER, CloudinaryName), CloudinaryName))))
    IN  IF name = AwsName THEN name ELSE CloudinaryName

\* get_storage_backend 180: the provider name the choice is made on
effective_provider(provider, ev) ==
    Lower(Or(provider, Or(ev.STORAGE_PROVIDER,
          Or(ConfigValue(ev.STORAGE_PROVIDER, CloudinaryName), CloudinaryName))))

\* get_storage_backend 181-190: the backend constructed, or the error raised
get_storage_backend(provider, ev) ==
    LET effective == effective_provider(provider, ev)
    IN  IF effective = CloudinaryName
        THEN Return([kind |-> "cloudinary", configured |-> FALSE, region |-> <<>>,
                     bucket |-> <<>>, cloudfront_domain |-> <<>>, prefix |-> <<>>])
        ELSE IF effective = AwsName
        THEN Return([kind |-> "s3", configured |-> FALSE,
                     region |-> ConfigValue(ev.AWS_REGION, <<>>),
                     bucket |-> ConfigValue(ev.AWS_S3_BUCKET, <<>>),
                     cloudfront_domain |-> s3_domain(ConfigValue(ev.AWS_CLOUDFRONT_DOMAIN, <<>>)),
                     prefix |-> s3_prefix(ConfigValue(ev.AWS_S3_PREFIX, <<>>))])
        ELSE Raise(Err("ValueError", <<"Unknown STORAGE_PROVIDER: ">> \o effective
                                     \o <<". Use 'cloudinary' or 'aws'.">>))

\* S3Backend._validate_config 115-124
s3_validate_config(b) ==
    IF ~Truthy(b.region)
    THEN Raise(Err("ValueError", <<"AWS_REGION is required when STORAGE_PROVIDER=aws">>))
    ELSE IF ~Truthy(b.bucket)
    THEN Raise(Err("ValueError", <<"AWS_S3_BUCKET is required when STORAGE_PROVIDER=aws">>))
    ELSE IF ~Truthy(b.cloudfront_domain) \/ b.cloudfront_domain = <<"https://">>
    THEN Raise(Err("ValueError",
                   <<"AWS_CLOUDFRONT_DOMAIN is required when STORAGE_PROVIDER=aws ">>))
    ELSE Return(None)

---------------------------------------------------------------------------
(* screenshots/storage.py: calls of get_storage_backend and upload_bytes.    *)
(* Nothing in the repository calls them, so a thread either asks             *)
(* get_storage_backend for its backend or uses one another thread obtained.  *)

\* Values of STORAGE_PROVIDER and of the provider argument
ProviderNames ==
    {None, <<>>, AwsName, <<"A", "W", "S">>, CloudinaryName,
     <<"C", "l", "o", "u", "d", "i", "n", "a", "r", "y">>, <<"s", "3">>,
     <<" ", "a", "w", "s">>, <<"g", "c", "s">>}

\* Prefixes and folders: up to MaxPathLen characters of a letter and '/'
MaxPathLen == 2

Paths == SeqsUpTo({"p", "/"}, MaxPathLen)

\* Keys: up to MaxKeyLen characters of a letter, '/', a space and a character
\* that is removed, and keys around the length limit
MaxKeyLen == 3

Repeat(c, n) == [i \in 1..n |-> c]

LongKeys ==
    {Repeat("k", KeyLimit), Repeat("k", KeyLimit + 1),
     <<"!">> \o Repeat("k", KeyLimit), <<"/">> \o Repeat(" ", KeyLimit + 1)}

CallerKeys == SeqsUpTo({"k", "/", " ", "!"}, MaxKeyLen) \cup LongKeys

ContentTypes == {<<"image/", "jpeg">>, <<"image/", "png">>}

\* uuid.uuid4().hex
Uuids == {<<"0", "a">>, <<"f", "f">>}

StorageEnv(sp, region, bucket, prefix, domain, c) ==
    [STORAGE_PROVIDER |-> sp, AWS_REGION |-> region, AWS_S3_BUCKET |-> bucket,
     AWS_S3_PREFIX |-> prefix, AWS_CLOUDFRONT_DOMAIN |-> domain,
     CLOUDINARY_CLOUD_NAME |-> c[1], CLOUDINARY_API_KEY |-> c[2],
     CLOUDINARY_API_SECRET |-> c[3]]

Domains == {None, <<>>, <<"/">>, <<"d1.cloudfront.net">>, <<"https://", "cdn.example.com", "/">>}

AllSet == <<(<<"cloud">>), (<<"ck">>), (<<"cs">>)>>

StartCall(a) == [IdleCall EXCEPT !.pc = "start", !.args = a]

\* One call that draws the provider names
SelectionCalls ==
    {<<StorageEnv(sp, <<"r">>, <<"b">>, None, <<"d1.cloudfront.net">>, AllSet),
       [NoArgs EXCEPT !.provider = pr]>> :
        sp \in ProviderNames, pr \in {None, <<>>, AwsName, <<"s", "3">>}}

\* One call of the S3 backend that draws the prefix, the folder and the key
S3KeyCalls ==
    {<<StorageEnv(AwsName, <<"r">>, <<"b">>, pf, <<"d1.cloudfront.net">>, AllSet),
       [NoArgs EXCEPT !.folder = f, !.key = k, !.content_type = ct]>> :
        pf \in {None} \cup Paths, f \in {None} \cup Paths,
        k \in {None} \cup CallerKeys, ct \in {<<"image/", "jpeg">>}}
    \cup {<<StorageEnv(AwsName, <<"r">>, <<"b">>, pf, <<"d1.cloudfront.net">>, AllSet),
            [NoArgs EXCEPT !.key = k, !.content_type = ct]>> :
            pf \in {None, <<"p">>}, k \in {None, <<>>}, ct \in ContentTypes}

\* One call of the S3 backend that draws the backend's settings
S3ConfigCalls ==
    {<<StorageEnv(AwsName, r, b, None, d, AllSet), [NoArgs EXCEPT !.key = <<"k">>]>> :
        r \in {None, <<"r">>}, b \in {None, <<"b">>}, d \in Domains}

\* Calls of the Cloudinary backend that draw the credentials, folder and key
CloudinaryCalls ==
    {<<StorageEnv(sp, None, None, None, None, c), [NoArgs EXCEPT !.folder = f, !.key = k]>> :
        sp \in {None, CloudinaryName}, c \in CloudinaryEnvs(TRUE),
        f \in {None, <<"p">>}, k \in {None, <<"k">>}}

\* Either one thread makes a call drawn from all of the above, or both threads
\* make a call of the Cloudinary backend.
StorageInit ==
    /\ \/ \E c \in SelectionCalls \cup S3KeyCalls \cup S3ConfigCalls \cup CloudinaryCalls :
             /\ env = c[1]
             /\ calls = [t \in Threads |-> IF t = 1 THEN StartCall(c[2]) ELSE IdleCall]
       \/ \E c \in CloudinaryCalls :
             /\ env = c[1]
             /\ calls = [t \in Threads |-> StartCall(c[2])]
    /\ backends = <<>>
    /\ config_calls = 0
    /\ writes = <<>>
    /\ op = "upload_bytes"
    /\ req = [url |-> None, proxy |-> None, use_retry |-> FALSE, folder |-> None]
    /\ pc = "storage"
    /\ attempts = <<>>
    /\ http = <<>>
    /\ inflight = {}
    /\ result = None
    /\ returned = [basic |-> None, advanced |-> None]
    /\ e = NoErr
    /\ retry_error = NoErr
    /\ screenshot_url = None
    /\ uploads = <<>>
    /\ img_response = NoResponse
    /\ image_bytes = NoBytes
    /\ response = NoReply
    /\ outcome = Return(None)

\* What the storage backends leave alone
request == <<env, op, req, pc, attempts, http, inflight, result, returned, e, retry_error,
             screenshot_url, uploads, img_response, image_bytes, response, outcome>>

\* upload_bytes of the backend at index b begins
EnterUpload(t, b, kind) ==
    [calls EXCEPT ![t].backend = b,
                  ![t].pc = IF kind = "cloudinary" THEN "ensure_configured" ELSE "s3_upload"]

\* The call ends in thread t
EndCall(t, r) == [calls EXCEPT ![t].pc = "done", ![t].outcome = r]

\* get_storage_backend 167-190, then upload_bytes is called on what it returned
GetBackend(t) ==
    /\ calls[t].pc = "start"
    /\ LET r == get_storage_backend(calls[t].args.provider, env)
       IN  IF r.ok
           THEN /\ backends' = Append(backends, r.value)
                /\ calls' = EnterUpload(t, Len(backends) + 1, r.value.kind)
           ELSE /\ calls' = EndCall(t, r)
                /\ UNCHANGED backends
    /\ UNCHANGED <<request, config_calls, writes>>

\* upload_bytes is called on a backend another thread obtained
UseBackend(t) ==
    /\ calls[t].pc = "start"
    /\ \E b \in 1..Len(backends) : calls' = EnterUpload(t, b, backends[b].kind)
    /\ UNCHANGED <<request, backends, config_calls, writes>>

\* CloudinaryBackend._ensure_configured 54-55: the flag is read
EnsureConfigured(t) ==
    /\ calls[t].pc = "ensure_configured"
    /\ calls' = [calls EXCEPT ![t].pc = IF backends[calls[t].backend].configured
                                        THEN "cloudinary_upload" ELSE "configure"]
    /\ UNCHANGED <<request, backends, config_calls, writes>>

\* CloudinaryBackend._ensure_configured 56-64: the credentials are checked and
\* cloudinary.config is called
Configure(t) ==
    /\ calls[t].pc = "configure"
    /\ LET v == validate_cloudinary_config(env)
       IN  IF v.ok
           THEN /\ config_calls' = config_calls + 1
                /\ calls' = [calls EXCEPT ![t].pc = "mark_configured"]
           ELSE /\ calls' = EndCall(t, v)
                /\ UNCHANGED config_calls
    /\ UNCHANGED <<request, backends, writes>>

\* CloudinaryBackend._ensure_configured 65: self._configured = True
MarkConfigured(t) ==
    /\ calls[t].pc = "mark_configured"
    /\ backends' = [backends EXCEPT ![calls[t].backend].configured = TRUE]
    /\ calls' = [calls EXCEPT ![t].pc = "cloudinary_upload"]
    /\ UNCHANGED <<request, config_calls, writes>>

\* CloudinaryBackend.upload_bytes 77-83: cloudinary.uploader.upload is called
CloudinaryUpload(t) ==
    /\ calls[t].pc = "cloudinary_upload"
    /\ writes' = Append(writes, [api |-> "cloudinary", thread |-> t,
                                 folder |-> upload_option(calls[t].args.folder),
                                 key |-> upload_option(calls[t].args.key),
                                 object_key |-> None, parts |-> <<>>])
    /\ calls' = [calls EXCEPT ![t].pc = "cloudinary_wait"]
    /\ UNCHANGED <<request, backends, config_calls>>

\* The exception cloudinary.uploader.upload raises
CloudinaryError == Err("cloudinary.exceptions.Error", <<"Invalid api_key">>)

\* CloudinaryBackend.upload_bytes 83-88: the uploader returns or raises; what
\* it raises is not caught
CloudinaryReturn(t) ==
    /\ calls[t].pc = "cloudinary_wait"
    /\ \E ans \in CloudinaryAnswers :
        IF ans.raised
        THEN calls' = [EndCall(t, Raise(CloudinaryError)) EXCEPT ![t].raised = CloudinaryError]
        ELSE IF ~Truthy(Or(ans.secure_url, ans.url))
        THEN calls' = EndCall(t, Raise(Err("Exception",
                         <<"Cloudinary upload succeeded but no URL returned">>)))
        ELSE calls' = EndCall(t, Return(Or(ans.secure_url, ans.url)))
    /\ UNCHANGED <<request, backends, config_calls, writes>>

\* S3Backend.upload_bytes 133-157: settings, key, object key, then put_object
S3Upload(t) ==
    /\ calls[t].pc = "s3_upload"
    /\ LET b == backends[calls[t].backend]
           a == calls[t].args
           v == s3_validate_config(b)
       IN  IF ~v.ok
           THEN /\ calls' = EndCall(t, v)
                /\ UNCHANGED writes
           ELSE \E u \in IF Truthy(a.key) THEN {<<>>} ELSE Uuids :
                  LET key == IF Truthy(a.key) THEN sanitize_key(a.key)
                             ELSE u \o <<".">> \o s3_ext(a.content_type)
                      parts == SelectSeq(s3_parts(b.prefix, a.folder, key),
                                         LAMBDA x : x # <<>>)
                      object_key == s3_object_key(parts)
                  IN  /\ writes' = Append(writes, [api |-> "s3", thread |-> t,
                                                   folder |-> a.folder, key |-> key,
                                                   object_key |-> object_key,
                                                   parts |-> parts])
                      /\ calls' = [calls EXCEPT ![t].pc = "s3_wait", ![t].key = key,
                                                ![t].parts = parts]
    /\ UNCHANGED <<request, backends, config_calls>>

\* What put_object ends with: success, botocore's ClientError, or another of
\* botocore's exceptions (no endpoint, no credentials)
PutObjectAnswers == {"ok", "ClientError", "EndpointConnectionError"}

PutObjectError(ans) ==
    IF ans = "ClientError"
    THEN Err("ClientError", <<"An error occurred (AccessDenied) when calling PutObject">>)
    ELSE Err("EndpointConnectionError", <<"Could not connect to the endpoint URL">>)

\* S3Backend.upload_bytes 151-164: put_object returns or raises; ClientError
\* alone is caught and wrapped
S3Return(t) ==
    /\ calls[t].pc = "s3_wait"
    /\ \E ans \in PutObjectAnswers :
        LET b == backends[calls[t].backend]
            object_key == s3_object_key(calls[t].parts)
        IN  IF ans = "ok"
            THEN calls' = EndCall(t, Return(RStripChar(b.cloudfront_domain, "/")
                                            \o <<"/">> \o object_key))
            ELSE IF ans = "ClientError"
            THEN calls' = [EndCall(t, Raise(Err("Exception", <<"S3 upload failed: ">>
                                                 \o PutObjectError(ans).msg)))
                           EXCEPT ![t].raised = PutObjectError(ans)]
            ELSE calls' = [EndCall(t, Raise(PutObjectError(ans)))
                           EXCEPT ![t].raised = PutObjectError(ans)]
    /\ UNCHANGED <<request, backends, config_calls, writes>>

StorageNext ==
    \E t \in Threads :
        \/ GetBackend(t)
        \/ UseBackend(t)
        \/ EnsureConfigured(t)
        \/ Configure(t)
        \/ MarkConfigured(t)
        \/ CloudinaryUpload(t)
        \/ CloudinaryReturn(t)
        \/ S3Upload(t)
        \/ S3Return(t)

StorageSpec == StorageInit /\ [][StorageNext]_vars

---------------------------------------------------------------------------
(* api/dependencies/auth.py and api/routes/screenshot.py.  Header values,    *)
(* tokens and flags are sequences of single characters here.                 *)

BearerWord == <<"B", "e", "a", "r", "e", "r">>

\* The value of API_TOKEN, and a token that is not it
TokenValue == <<"t", "k">>

OtherToken == <<"t", "x">>

TrueWord == <<"t", "r", "u", "e">>

\* api/config.py 21: API_TOKEN = os.getenv("API_TOKEN", "")
API_TOKEN(ev) == ConfigValue(ev.API_TOKEN, <<>>)

\* api/config.py 22
API_TOKEN_REQUIRED(ev) ==
    Lower(ConfigValue(ev.API_TOKEN_REQUIRED, TrueWord))
        \in {TrueWord, <<"1">>, <<"y", "e", "s">>}

\* s.split(" ", 1): the text before the first blank and the text after it, or
\* the text alone when it holds no blank
SplitOnce(s) ==
    IF \A i \in 1..Len(s) : s[i] # " " THEN <<s>>
    ELSE LET i == CHOOSE k \in 1..Len(s) : s[k] = " " /\ \A j \in 1..(k - 1) : s[j] # " "
         IN  <<SubSeq(s, 1, i - 1), SubSeq(s, i + 1, Len(s))>>

\* raise HTTPException(status_code=..., detail=...)
HTTPException(status_code, detail) ==
    [status |-> status_code, detail |-> detail, body |-> NoBody]

\* verify_token that takes any Bearer token for the right one
verify_token_AnyBearer(authorization, ev) ==
    IF ~API_TOKEN_REQUIRED(ev) THEN NoReply
    ELSE IF ~Truthy(API_TOKEN(ev))
    THEN HTTPException(500, <<"Authentication is misconfigured">>)
    ELSE IF ~Truthy(authorization)
    THEN HTTPException(401, <<"Missing Authorization header">>)
    ELSE LET parts == SplitOnce(authorization)
         IN  IF Len(parts) # 2 \/ Lower(parts[1]) # Lower(BearerWord)
             THEN HTTPException(401, <<"Invalid Authorization header format. ",
                                       "Expected: Bearer <token>">>)
             ELSE NoReply

\* auth.py 25-68: NoReply when the dependency returns, else the HTTPException
\* it raises
verify_token(authorization, ev) ==
    IF ~API_TOKEN_REQUIRED(ev) THEN NoReply
    ELSE IF ~Truthy(API_TOKEN(ev))
    THEN HTTPException(500, <<"Authentication is misconfigured">>)
    ELSE IF ~Truthy(authorization)
    THEN HTTPException(401, <<"Missing Authorization header">>)
    ELSE LET parts == SplitOnce(authorization)
         IN  IF Len(parts) # 2 \/ Lower(parts[1]) # Lower(BearerWord)
             THEN HTTPException(401, <<"Invalid Authorization header format. ",
                                       "Expected: Bearer <token>">>)
             ELSE IF Strip(parts[2]) # API_TOKEN(ev)
             THEN HTTPException(401, <<"Invalid authentication token">>)
             ELSE NoReply

\* The service function each route calls: POST /capture, /capture/and-upload
\* and /capture/zenrows
RouteOps == {"capture_screenshot_url", "capture_and_upload_screenshot",
             "capture_and_upload_with_zenrows"}

\* routes/screenshot.py 131 and 262: request.folder or CLOUDINARY_FOLDER or None
handler_folder(body, ev) == Or(body.folder, Or(CLOUDINARY_FOLDER(ev), None))

\* Lines 61-69, 125-138 and 259-268: the arguments the handler calls the
\* service function with, for the request `body`; the field `request` keeps it
service_arguments(o, body, ev) ==
    [url |-> body.url,
     proxy |-> IF o = "capture_and_upload_with_zenrows" THEN None ELSE body.proxy,
     use_retry |-> IF o = "capture_and_upload_with_zenrows" THEN TRUE
                   ELSE body.proxy = None,
     folder |-> IF o = "capture_screenshot_url" THEN None ELSE handler_folder(body, ev),
     request |-> body]

\* The text that begins the detail of a route's generic failure
FailurePrefix(o) ==
    IF o = "capture_screenshot_url" THEN <<"Failed to capture screenshot: ">>
    ELSE IF o = "capture_and_upload_screenshot"
    THEN <<"Failed to capture and upload screenshot: ">>
    ELSE <<"Failed to capture and upload screenshot with ZenRows: ">>

\* An exception that leaves the handler uncaught (no HTTP status is negative)
Unhandled(x) == [status |-> -1, detail |-> x.msg, body |-> NoBody]

\* route_response without the `except Exception` branch
route_response_ValueErrorOnly(o, r, out, captured) ==
    IF out.ok
    THEN [status |-> 200, detail |-> <<>>,
          body |-> IF o = "capture_screenshot_url"
                   THEN [NoBody EXCEPT !.screenshot_url = out.value, !.url = r.url]
                   ELSE IF o = "capture_and_upload_screenshot"
                   THEN [uploaded_url |-> out.value, screenshot_url |-> captured,
                         url |-> r.url, folder |-> r.folder]
                   ELSE [NoBody EXCEPT !.uploaded_url = out.value, !.url = r.url,
                                       !.folder = r.folder]]
    ELSE IF IsValueError(out.err)
    THEN HTTPException(500, <<"Configuration error: ">> \o out.err.msg)
    ELSE Unhandled(out.err)

\* Lines 74-90, 142-160 and 272-289: the response model returned, or the
\* HTTPException raised by the `except` branch the exception falls into
route_response(o, r, out, captured) ==
    IF out.ok
    THEN [status |-> 200, detail |-> <<>>,
          body |-> IF o = "capture_screenshot_url"
                   THEN [NoBody EXCEPT !.screenshot_url = out.value, !.url = r.url]
                   ELSE IF o = "capture_and_upload_screenshot"
                   THEN [uploaded_url |-> out.value, screenshot_url |-> captured,
                         url |-> r.url, folder |-> r.folder]
                   ELSE [NoBody EXCEPT !.uploaded_url = out.value, !.url = r.url,
                                       !.folder = r.folder]]
    ELSE IF IsValueError(out.err)
    THEN HTTPException(500, <<"Configuration error: ">> \o out.err.msg)
    ELSE HTTPException(500, FailurePrefix(o) \o out.err.msg)

\* The Authorization headers the model draws
Headers ==
    {None, <<>>,
     BearerWord \o <<" ">> \o TokenValue,
     Lower(BearerWord) \o <<" ">> \o TokenValue,
     BearerWord \o <<" ", " ">> \o TokenValue \o <<" ">>,
     BearerWord \o <<" ">> \o OtherToken,
     BearerWord \o <<" ">>,
     BearerWord \o TokenValue,
     TokenValue,
     <<"B", "a", "s", "i", "c", " ">> \o TokenValue}

\* The process environment with the two authentication settings added
WithAuth(ev, token, required) ==
    [k \in DOMAIN ev \cup {"API_TOKEN", "API_TOKEN_REQUIRED"} |->
        IF k = "API_TOKEN" THEN token
        ELSE IF k = "API_TOKEN_REQUIRED" THEN required
        ELSE ev[k]]

\* Every variable of the services set, no proxy, no default folder
FullEnv ==
    [SCREENSHOTONE_ACCESS_KEY |-> <<"sk">>, SCREENSHOTONE_PROXY |-> None,
     WEB_UNLOCKER_PROXY |-> None, ZENROWS_API_KEY |-> <<"zk">>,
     CLOUDINARY_CLOUD_NAME |-> <<"cloud">>, CLOUDINARY_API_KEY |-> <<"ck">>,
     CLOUDINARY_API_SECRET |-> <<"cs">>, CLOUDINARY_FOLDER |-> None]

PlainRequest ==
    [url |-> TargetUrl, proxy |-> None, folder |-> None, authorization |-> None]

\* Requests that draw the authentication settings and the header.  The three
\* routes declare the same dependency; the two ScreenshotOne routes stand for
\* them here.
AuthCases(o) ==
    IF o = "capture_and_upload_with_zenrows" THEN {}
    ELSE {<<WithAuth(FullEnv, t, r), [PlainRequest EXCEPT !.authorization = h]>> :
            t \in {None, <<>>, TokenValue},
            r \in {None, TrueWord, <<"Y", "e", "s">>, <<"f", "a", "l", "s", "e">>},
            h \in Headers}

\* Requests served without authentication that draw the services' environment
\* and the proxy
FailureCases(o) ==
    {<<WithAuth(ev, None, <<"0">>), [PlainRequest EXCEPT !.proxy = p]>> :
        ev \in EnvsFor(o),
        p \in IF UsesProxyArgument(o) THEN {None, <<>>, CallerProxyValue} ELSE {None}}

\* Requests of POST /capture/and-upload served without authentication that
\* draw the request's folder and CLOUDINARY_FOLDER
FolderCases(o) ==
    IF o # "capture_and_upload_screenshot" THEN {}
    ELSE {<<WithAuth([FullEnv EXCEPT !.CLOUDINARY_FOLDER = d], None, <<"0">>),
            [PlainRequest EXCEPT !.folder = f]>> :
            d \in {None, <<>>, EnvFolderValue}, f \in {None, <<>>, CallerFolderValue}}

\* A request arrives at the route of service function o, in environment c[1]
\* and with body and headers c[2]
RouteStart(o, c) ==
    /\ op = o
    /\ env = c[1]
    /\ req = service_arguments(o, c[2], c[1])
    /\ pc = "auth"
    /\ attempts = <<>>
    /\ http = <<>>
    /\ inflight = {}
    /\ result = None
    /\ returned = [basic |-> None, advanced |-> None]
    /\ e = NoErr
    /\ retry_error = NoErr
    /\ screenshot_url = None
    /\ uploads = <<>>
    /\ img_response = NoResponse
    /\ image_bytes = NoBytes
    /\ response = NoReply
    /\ StorageIdle
    /\ outcome = Return(None)

RouteInit ==
    \E o \in RouteOps :
        \E c \in AuthCases(o) \cup FailureCases(o) \cup FolderCases(o) : RouteStart(o, c)

\* Depends(verify_token): the dependency runs before the handler's body
VerifyToken ==
    /\ pc = "auth"
    /\ LET v == verify_token(req.request.authorization, env)
       IN  IF v = NoReply
           THEN /\ pc' = "entry"
                /\ UNCHANGED response
           ELSE /\ response' = v
                /\ pc' = "responded"
    /\ UNCHANGED <<const, storage, relay, locals, attempts, http, inflight, screenshot_url,
                   uploads, outcome>>

\* The service function has returned or raised: the handler answers
Respond ==
    /\ pc = "done"
    /\ op \in RouteOps
    /\ response' = route_response(op, req, outcome, screenshot_url)
    /\ pc' = "responded"
    /\ UNCHANGED <<const, storage, relay, locals, attempts, http, inflight, screenshot_url,
                   uploads, outcome>>

RouteNext ==
    \/ VerifyToken
    \/ Dispatch
    \/ BasicCall
    \/ BasicReceive
    \/ BasicFailed
    \/ AdvancedCall
    \/ AdvancedReceive
    \/ AdvancedFailed
    \/ DirectCall
    \/ DirectReceive
    \/ UploadFromUrl
    \/ DownloadReceive
    \/ UploadReceive
    \/ ZenrowsCall
    \/ ZenrowsReceive
    \/ Respond

RouteSpec == RouteInit /\ [][RouteNext]_vars

---------------------------------------------------------------------------
(* The destination folder: upload_screenshot_from_url called with a folder   *)
(* and a default folder of its caller's, and POST /capture/and-upload        *)

FolderInit ==
    \/ RelayInit
    \/ \E c \in FolderCases("capture_and_upload_screenshot") :
          RouteStart("capture_and_upload_screenshot", c)

FolderNext ==
    \/ VerifyToken
    \/ Dispatch
    \/ BasicCall
    \/ BasicReceive
    \/ BasicFailed
    \/ UploadFromUrl
    \/ DownloadReceive
    \/ UploadReceive
    \/ Respond
    \/ RelayAgain

FolderSpec == FolderInit /\ [][FolderNext]_vars

---------------------------------------------------------------------------
(* Vocabulary of the properties *)

\* The request runs the tiered retry (no explicit proxy).
OnRetryPath == UsesScreenshotOne(op) /\ UsesRetry(req)

\* The caller supplied a proxy.
OnExplicitPath == UsesProxyArgument(op) /\ req.proxy # None

KeyConfigured == Truthy(env.SCREENSHOTONE_ACCESS_KEY)

AdvancedConfigured == Truthy(env.WEB_UNLOCKER_PROXY)

\* The invocations of the provider call made on a tier, and the HTTP
\* requests sent to the provider on it
Attempts(tier) == {i \in 1..Len(attempts) : attempts[i].tier = tier}

ProviderRequests == {i \in 1..Len(http) : http[i].api = "screenshotone"}

Requests(tier) == {i \in ProviderRequests : http[i].tier = tier}

\* What the basic tier's proxy may be: SCREENSHOTONE_PROXY with a port, or none
BasicTierProxies ==
    IF Truthy(env.SCREENSHOTONE_PROXY)
    THEN {env.SCREENSHOTONE_PROXY \o <<":", PortStr(n)>> : n \in RandLo..RandHi}
    ELSE {None}

\* The basic tier's attempt has ended, with a failure or with a success.
BasicFailedSeen == e # NoErr

BasicSucceeded == returned.basic # None /\ e = NoErr

\* The capture stage of the request has produced its screenshot locator.
CaptureSucceeded ==
    IF op = "capture_and_upload_screenshot" THEN screenshot_url # None
    ELSE UsesScreenshotOne(op) /\ pc = "done" /\ outcome.ok

CapturedValue ==
    IF op = "capture_and_upload_screenshot" THEN screenshot_url ELSE outcome.value

\* The capture stage of the request has failed.
CaptureFailed ==
    /\ UsesScreenshotOne(op)
    /\ pc = "done"
    /\ ~outcome.ok
    /\ op = "capture_and_upload_screenshot" => screenshot_url = None

\* a occurs in hay, and b occurs after it
ContainsInOrder(hay, a, b) ==
    \E i \in 0..(Len(hay) - Len(a)) :
        /\ SubSeq(hay, i + 1, i + Len(a)) = a
        /\ Contains(SubSeq(hay, i + Len(a) + 1, Len(hay)), b)

\* Every exception _call_screenshotone_api can raise
CallErrors ==
    {call_finish(r).err : r \in {x \in Responses : ~call_finish(x).ok}}
    \cup {Err("ValueError", <<"SCREENSHOTONE_ACCESS_KEY not found in environment variables">>)}

\* The missing access key, and a success answer without a usable URL
IsConfigurationError(x) ==
    x = Err("ValueError", <<"SCREENSHOTONE_ACCESS_KEY not found in environment variables">>)

IsInvalidResponse(x) ==
    \/ x.type = "JSONDecodeError"
    \/ /\ x.type = "ValueError"
       /\ \/ StartsWith(x.msg, <<"No screenshot URL in response: ">>)
          \/ StartsWith(x.msg, <<"Invalid screenshot URL returned from basic proxy: ">>)
          \/ StartsWith(x.msg, <<"Invalid screenshot URL returned from WEB_UNLOCKER_PROXY: ">>)

---------------------------------------------------------------------------
(* Properties *)

\* C1: with no explicit proxy the first provider call is made on the basic
\* tier (SCREENSHOTONE_PROXY with a random port, or no proxy when it is
\* unset), and once that call has failed and WEB_UNLOCKER_PROXY is set, the
\* request either is about to make the advanced call (and can) or has made
\* exactly one call on the advanced tier, with WEB_UNLOCKER_PROXY as proxy.
C1_TieredRetry ==
    OnRetryPath =>
        /\ attempts # <<>> =>
              attempts[1].tier = "basic" /\ attempts[1].proxy \in BasicTierProxies
        /\ http # <<>> =>
              /\ http[1].api = "screenshotone"
              /\ http[1].tier = "basic"
              /\ http[1].proxy = attempts[1].proxy
        /\ (BasicFailedSeen /\ AdvancedConfigured) =>
              \/ pc = "basic_failed" /\ Attempts("advanced") = {} /\ ENABLED BasicFailed
              \/ pc = "advanced_call" /\ Attempts("advanced") = {} /\ ENABLED AdvancedCall
              \/ /\ Cardinality(Attempts("advanced")) = 1
                 /\ \A i \in Attempts("advanced") : attempts[i].proxy = env.WEB_UNLOCKER_PROXY
                 /\ Cardinality(Requests("advanced")) = IF KeyConfigured THEN 1 ELSE 0
                 /\ \A i \in Requests("advanced") : http[i].proxy = env.WEB_UNLOCKER_PROXY

\* The basic tier answered 403 and the advanced tier was then called once.
C1_Witness ==
    /\ OnRetryPath
    /\ pc = "done"
    /\ e.type = "HTTPError"
    /\ AdvancedConfigured
    /\ Cardinality(Attempts("advanced")) = 1
    /\ Len(http) = 2

\* C2: within one request each proxy tier is called at most once, so at most
\* two provider calls (and at most two HTTP requests to the provider) are made.
C2_AtMostOncePerTier ==
    /\ \A tier \in {"basic", "advanced", "direct", "zenrows"} :
          Cardinality(Attempts(tier)) <= 1 /\ Cardinality(Requests(tier)) <= 1
    /\ Len(attempts) <= 2
    /\ Cardinality(ProviderRequests) <= 2

\* Both tiers were called and both failed.
C2_Witness ==
    /\ pc = "done"
    /\ Len(attempts) = 2
    /\ Cardinality(ProviderRequests) = 2
    /\ retry_error # NoErr

\* C3: with an explicit proxy exactly one provider call is made, with that
\* proxy (one HTTP request when the access key is set), no tier of the retry is
\* ever tried, and a failure of the call reaches the caller as it was raised.
C3_ExplicitProxyDirect ==
    OnExplicitPath =>
        /\ e = NoErr /\ retry_error = NoErr
        /\ Len(attempts) <= 1
        /\ \A i \in 1..Len(attempts) : attempts[i] = [tier |-> "direct", proxy |-> req.proxy]
        /\ pc \notin {"entry", "direct_call"} => Len(attempts) = 1
        /\ Cardinality(ProviderRequests) <= 1
        /\ \A i \in ProviderRequests :
              /\ http[i].tier = "direct"
              /\ http[i].proxy = IF Truthy(req.proxy) THEN req.proxy ELSE None
        /\ (pc \notin {"entry", "direct_call"} /\ KeyConfigured) =>
              Cardinality(ProviderRequests) = 1
        /\ CaptureFailed => outcome.err \in CallErrors

\* An explicit proxy with use_retry left TRUE: one request, its 403 surfaced.
C3_Witness ==
    /\ pc = "done"
    /\ req.proxy = CallerProxyValue
    /\ req.use_retry
    /\ ~outcome.ok
    /\ outcome.err.type = "HTTPError"
    /\ Len(http) = 1
    /\ http[1].proxy = CallerProxyValue

\* C4: at most one outbound request is in flight; an advanced-tier call exists
\* only as the second call, after the basic call has ended with a failure; and
\* after a success of the basic tier the advanced tier is never called.
C4_TiersSequential ==
    /\ Cardinality(inflight) <= 1
    /\ \A i \in Attempts("advanced") :
          /\ i = 2
          /\ attempts[1].tier = "basic"
          /\ BasicFailedSeen
          /\ inflight \cap {"basic", "basic_download"} = {}
    /\ BasicSucceeded => Attempts("advanced") = {}

\* The advanced request is in flight, after the basic one failed.
C4_Witness ==
    /\ inflight = {"advanced"}
    /\ BasicFailedSeen
    /\ Len(http) = 2

\* C5: when the basic tier failed and the capture succeeded, the value handed
\* back is the one the advanced tier's call returned, and differs from
\* whatever the basic attempt returned.
C5_AdvancedOutputReturned ==
    (OnRetryPath /\ BasicFailedSeen /\ CaptureSucceeded) =>
        /\ returned.advanced # None
        /\ CapturedValue = returned.advanced
        /\ CapturedValue # returned.basic

\* The basic tier returned a blank URL, the advanced tier a real one.
C5_Witness ==
    /\ op = "capture_screenshot_url"
    /\ pc = "done"
    /\ returned.basic = <<" ">>
    /\ outcome.ok
    /\ outcome.value = UrlB

\* C6: when both tiers failed, the error raised holds the basic tier's error
\* text followed by the advanced tier's error text.
C6_BothErrorsSurfaced ==
    (pc = "done" /\ retry_error # NoErr) =>
        /\ ~outcome.ok
        /\ BasicFailedSeen
        /\ ContainsInOrder(outcome.err.msg, e.msg, retry_error.msg)

\* Both tiers failed, with different errors.
C6_Witness ==
    /\ pc = "done"
    /\ e.type = "HTTPError"
    /\ retry_error.type = "ConnectionError"
    /\ ~outcome.ok

\* C7: when the basic tier failed and WEB_UNLOCKER_PROXY is unset, the request
\* fails with an error that holds the basic tier's error text and names the
\* missing WEB_UNLOCKER_PROXY; the advanced tier is not called.
C7_MissingAdvancedReported ==
    (pc = "done" /\ BasicFailedSeen /\ ~AdvancedConfigured) =>
        /\ ~outcome.ok
        /\ Contains(outcome.err.msg, e.msg)
        /\ Contains(outcome.err.msg, <<"WEB_UNLOCKER_PROXY", " not found. ">>)
        /\ Attempts("advanced") = {}

\* The basic tier's request failed and there is no advanced tier.
C7_Witness ==
    /\ pc = "done"
    /\ BasicFailedSeen
    /\ ~AdvancedConfigured
    /\ Len(http) = 1
    /\ ~outcome.ok

\* C8: a configuration error (SCREENSHOTONE_ACCESS_KEY unset) is never followed
\* by a second capture attempt.
C8_ConfigErrorNotRetried ==
    IsConfigurationError(e) => Attempts("advanced") = {}

\* C9 as claimed: an invalid response (success status, no usable URL) is never
\* followed by an escalation to the advanced tier.
C9_InvalidResponseNotRetried ==
    IsInvalidResponse(e) => Attempts("advanced") = {}

\* C9 as amended: an invalid response is surfaced without another attempt on
\* the direct path and when it comes from the advanced tier; on the retry path
\* an invalid response of the basic tier is followed by exactly one call on the
\* advanced tier when WEB_UNLOCKER_PROXY is set.
C9_InvalidResponseEscalatesOnce ==
    /\ (UsesScreenshotOne(op) /\ ~OnRetryPath /\ CaptureFailed
          /\ IsInvalidResponse(outcome.err)) =>
          Len(attempts) = 1 /\ Cardinality(ProviderRequests) = 1
    /\ (OnRetryPath /\ IsInvalidResponse(e) /\ AdvancedConfigured
          /\ pc \notin {"basic_failed", "advanced_call"}) =>
          Cardinality(Attempts("advanced")) = 1 /\ Cardinality(Requests("advanced")) = 1
    /\ IsInvalidResponse(retry_error) =>
          /\ Len(attempts) = 2
          /\ pc \in {"advanced_failed", "done"}
          /\ pc = "done" => ~outcome.ok /\ Contains(outcome.err.msg, retry_error.msg)

\* The basic tier answered 200 without a URL, the advanced tier then succeeded.
C9_Witness ==
    /\ OnRetryPath
    /\ pc = "done"
    /\ e.type = "ValueError"
    /\ StartsWith(e.msg, <<"No screenshot URL in response: ">>)
    /\ Cardinality(Requests("advanced")) = 1
    /\ outcome.ok

\* C10: on the ZenRows path the storage upload is only ever called with bytes
\* that begin with the JPEG or the PNG signature.
C10_UploadOnlyValidatedBytes ==
    op = "capture_and_upload_with_zenrows" =>
        \A i \in 1..Len(uploads) :
            \/ StartsWith(uploads[i].image_bytes, <<255, 216, 255>>)
            \/ StartsWith(uploads[i].image_bytes, <<137, 80, 78, 71>>)

\* C11: the byte validation of a 200 answer of ZenRows returns a payload that
\* begins with FF D8 FF or with 89 50 4E 47 as it is, and rejects a payload that
\* begins with '{' or '<' with an error whose message holds the answer's text.
C11_ByteValidation ==
    (op = "capture_screenshot_with_zenrows" /\ pc = "done" /\ req.net /\ req.status = 200) =>
        /\ (\/ StartsWith(req.content, <<255, 216, 255>>)
            \/ StartsWith(req.content, <<137, 80, 78, 71>>)) =>
              outcome = Return(req.content)
        /\ (StartsWith(req.content, <<123>>) \/ StartsWith(req.content, <<60>>)) =>
              /\ ~outcome.ok
              /\ outcome.err.type = "ValueError"
              /\ Contains(outcome.err.msg, Take(Text(req.content), TextLimit))

\* An HTML body came with status 200 and was rejected.
C11_Witness ==
    /\ op = "capture_screenshot_with_zenrows"
    /\ pc = "done"
    /\ req.status = 200
    /\ req.content = <<60, 123, 80>>
    /\ ~outcome.ok

\* C12: on a 200 answer _call_screenshotone_api returns the first of the
\* fields screenshot, screenshot_url, cache_url that is present and not empty,
\* and raises an error that shows the answer when none of them is.
C12_FirstUsableField ==
    (op = "_call_screenshotone_api" /\ pc = "done" /\ req.net /\ req.status = 200
       /\ req.parsed) =>
        LET d == req.data
            usable(v) == v # None /\ v # <<>>
        IN  IF usable(d["screenshot"]) THEN outcome = Return(d["screenshot"])
            ELSE IF usable(d["screenshot_url"]) THEN outcome = Return(d["screenshot_url"])
            ELSE IF usable(d["cache_url"]) THEN outcome = Return(d["cache_url"])
            ELSE /\ ~outcome.ok
                 /\ outcome.err.type = "ValueError"
                 /\ StartsWith(outcome.err.msg, <<"No screenshot URL in response: ">>)
                 /\ Contains(outcome.err.msg, DictText(d))

\* screenshot is empty, screenshot_url and cache_url hold different URLs.
C12_Witness ==
    /\ op = "_call_screenshotone_api"
    /\ pc = "done"
    /\ req.status = 200
    /\ req.parsed
    /\ req.data["screenshot"] = <<>>
    /\ req.data["screenshot_url"] = UrlB
    /\ req.data["cache_url"] = UrlA
    /\ outcome = Return(UrlB)

\* The flows that chain a capture and an upload, and what they send
ChainedFlow == op \in {"capture_and_upload_screenshot", "capture_and_upload_with_zenrows"}

ImageRequests == {i \in 1..Len(http) : http[i].api = "image"}

\* Every exception capture_screenshot_with_zenrows can raise
ZenCaptureErrors ==
    {zenrows_finish(r).err : r \in {x \in ZenResponses : ~zenrows_finish(x).ok}}
    \cup {Err("ValueError", <<"ZENROWS_API_KEY not found in environment variables">>)}

\* The capture stage has handed nothing to the upload stage.
NothingCaptured == screenshot_url = None /\ image_bytes = NoBytes

\* C14: in the chained flows, as long as the capture has produced nothing no
\* image is downloaded and no upload is called, and a request that ends without
\* a capture ends with the capture's own failure: the provider call's error on
\* the explicit path, the retry's combined error on the retry path, the ZenRows
\* capture's error on the ZenRows path.
C14_CaptureFailureEndsRequest ==
    ChainedFlow =>
        /\ NothingCaptured =>
              /\ uploads = <<>>
              /\ ImageRequests = {}
              /\ pc \notin {"upload_from_url", "download_wait", "upload_wait"}
        /\ (pc = "done" /\ NothingCaptured) =>
              /\ ~outcome.ok
              /\ IF op = "capture_and_upload_with_zenrows"
                 THEN outcome.err \in ZenCaptureErrors
                 ELSE IF OnRetryPath
                 THEN /\ e # NoErr
                      /\ outcome.err = IF retry_error # NoErr
                                        THEN BothFailedError(e, retry_error)
                                        ELSE SimpleFailedError(e)
                 ELSE outcome.err \in CallErrors

\* The explicit proxy's call answered 403; storage was configured and never
\* called.
C14_Witness ==
    /\ op = "capture_and_upload_screenshot"
    /\ OnExplicitPath
    /\ validate_cloudinary_config(env).ok
    /\ pc = "done"
    /\ screenshot_url = None
    /\ outcome.err.type = "HTTPError"
    /\ uploads = <<>>

\* The download of the relay has failed: no answer, or a status outside 2xx.
DownloadFailedNon2xx(a) == ~a.net \/ a.status < 200 \/ a.status > 299

IsDownloadError(x) ==
    x.type = "RequestException" /\ StartsWith(x.msg, <<"Error downloading image: ">>)

\* C15: the upload is called only after a download that ended with
\* a 2xx status, with the bytes downloaded; a download that fails (no answer,
\* or a status that is not 2xx) ends the request with a download error and no
\* upload call.
C15_UploadOnlyAfter2xx ==
    op = "capture_and_upload_screenshot" =>
        /\ uploads # <<>> =>
              /\ img_response # NoResponse
              /\ ~DownloadFailedNon2xx(img_response)
              /\ "download" \notin inflight
              /\ uploads[1].image_bytes = img_response.content
        /\ (img_response # NoResponse /\ DownloadFailedNon2xx(img_response)) =>
              /\ pc = "done"
              /\ ~outcome.ok
              /\ IsDownloadError(outcome.err)
              /\ uploads = <<>>

\* C16: all the uploads the relay makes for one image URL and folder, request
\* after request, are called with the same public_id and the same folder,
\* whatever bytes were downloaded.
C16_KeyDeterministic ==
    op = "upload_screenshot_from_url" =>
        \A i, j \in 1..Len(uploads) :
            /\ uploads[i].public_id = uploads[j].public_id
            /\ uploads[i].folder = uploads[j].folder

\* Two requests for the same URL downloaded different bytes and uploaded both.
C16_Witness ==
    /\ op = "upload_screenshot_from_url"
    /\ Len(uploads) = 2
    /\ uploads[1].image_bytes # uploads[2].image_bytes
    /\ uploads[2].public_id = <<"cache.example", "_", "a.jpg">>
    /\ uploads[2].folder = EnvFolderValue

\* The provider name in force: the argument, else STORAGE_PROVIDER; and the
\* spellings of the two names the model draws
ConfiguredName(t) == IF calls[t].args.provider \notin {None, <<>>}
                     THEN calls[t].args.provider ELSE env.STORAGE_PROVIDER

CloudinarySpellings ==
    {CloudinaryName, <<"C", "l", "o", "u", "d", "i", "n", "a", "r", "y">>}

AwsSpellings == {AwsName, <<"A", "W", "S">>}

BackendOf(t) == backends[calls[t].backend]

\* C13: the backend a call gets is decided by the provider name alone: the
\* Cloudinary backend for the Cloudinary name (and when no name is configured,
\* the default), the S3 backend for the name aws, and for every other name a
\* ValueError that shows the name, with no backend constructed.
C13_BackendSelection ==
    \A t \in Threads :
        calls[t].pc \notin {"idle", "start"} =>
            IF ConfiguredName(t) \in {None, <<>>} \cup CloudinarySpellings
            THEN calls[t].backend # 0 /\ BackendOf(t).kind = "cloudinary"
            ELSE IF ConfiguredName(t) \in AwsSpellings
            THEN calls[t].backend # 0 /\ BackendOf(t).kind = "s3"
            ELSE /\ calls[t].backend = 0
                 /\ backends = <<>>
                 /\ writes = <<>>
                 /\ calls[t].pc = "done"
                 /\ ~calls[t].outcome.ok
                 /\ calls[t].outcome.err.type = "ValueError"
                 /\ StartsWith(calls[t].outcome.err.msg, <<"Unknown STORAGE_PROVIDER: ">>)
                 /\ Contains(calls[t].outcome.err.msg, Lower(ConfiguredName(t)))

\* STORAGE_PROVIDER=gcs: the call ended with the error and no backend.
C13_Witness ==
    /\ op = "upload_bytes"
    /\ env.STORAGE_PROVIDER = <<"g", "c", "s">>
    /\ calls[1].args.provider = None
    /\ calls[1].pc = "done"
    /\ ~calls[1].outcome.ok
    /\ backends = <<>>

\* The writes of the S3 backend
S3Writes == {i \in 1..Len(writes) : writes[i].api = "s3"}

\* C17: every object key the S3 backend writes under has no leading slash, and
\* where two of its parts (prefix, folder, key) are joined neither part brings
\* a slash of its own, so that no empty segment arises at a join.
C17_ObjectKeyWellFormed ==
    \A i \in S3Writes :
        /\ writes[i].object_key # <<>> => writes[i].object_key[1] # "/"
        /\ \A j \in 1..(Len(writes[i].parts) - 1) :
              /\ writes[i].parts[j][Len(writes[i].parts[j])] # "/"
              /\ writes[i].parts[j + 1][1] # "/"

AlnumChars ==
    {LowerCase[i] : i \in 1..Len(LowerCase)} \cup {UpperCase[i] : i \in 1..Len(UpperCase)}
    \cup Digits

CallerSuppliedKey(i) ==
    calls[writes[i].thread].args.key \notin {None, <<>>}

\* C18 as claimed: a caller-supplied key the S3 backend writes under consists
\* of alphanumeric characters, '-', '.' and '/' only, and of at most 200 of them.
C18_KeyAlphanumericOnly ==
    \A i \in S3Writes :
        CallerSuppliedKey(i) =>
            /\ \A j \in 1..Len(writes[i].key) :
                  writes[i].key[j] \in AlnumChars \cup {"-", ".", "/"}
            /\ Len(writes[i].key) <= KeyLimit

\* C18 as amended: a caller-supplied key the S3 backend writes under consists
\* of alphanumeric characters, '_', '-', '.' and '/' only, of at most 200 of
\* them, and is not empty.
C18_KeySanitized ==
    \A i \in S3Writes :
        CallerSuppliedKey(i) =>
            /\ \A j \in 1..Len(writes[i].key) :
                  writes[i].key[j] \in AlnumChars \cup {"_", "-", ".", "/"}
            /\ Len(writes[i].key) <= KeyLimit
            /\ writes[i].key # <<>>

\* A key of 202 characters, spaces among them, was cut to 200.
C18_Witness ==
    \E i \in S3Writes :
        /\ Len(calls[writes[i].thread].args.key) = KeyLimit + 2
        /\ Len(writes[i].key) = KeyLimit
        /\ writes[i].key[2] = "_"

\* C19: when the storage write of a backend raises, the call ends with an
\* Exception whose message names the backend, not with what the provider's
\* library raised.
C19_WriteFailuresWrapped ==
    \A t \in Threads :
        (calls[t].pc = "done" /\ calls[t].raised # NoErr) =>
            /\ ~calls[t].outcome.ok
            /\ calls[t].outcome.err # calls[t].raised
            /\ calls[t].outcome.err.type = "Exception"
            /\ \/ StartsWith(calls[t].outcome.err.msg, <<"S3 upload failed: ">>)
               \/ StartsWith(calls[t].outcome.err.msg, <<"Cloudinary upload failed: ">>)

\* C20: whatever the threads do, cloudinary.config is called by the storage
\* backends at most once in the process.
C20_ConfiguredAtMostOnce == config_calls <= 1

\* C29: when SCREENSHOTONE_ACCESS_KEY is unset no HTTP request is ever sent to
\* the capture provider (nor any other request): the direct call and both tier
\* attempts of the retry fail at the key check, and the request ends in failure.
C29_NoRequestWithoutKey ==
    (UsesScreenshotOne(op) /\ ~KeyConfigured) =>
        /\ ProviderRequests = {}
        /\ http = <<>>
        /\ inflight = {}
        /\ pc = "done" =>
              /\ ~outcome.ok
              /\ \E x \in CallErrors :
                    IsConfigurationError(x) /\ Contains(outcome.err.msg, x.msg)

\* Both tiers of the retry were attempted without a key; nothing was sent.
C29_Witness ==
    /\ OnRetryPath
    /\ ~KeyConfigured
    /\ AdvancedConfigured
    /\ pc = "done"
    /\ Len(attempts) = 2
    /\ http = <<>>

\* C30: every screenshot URL that capture_screenshot_url returns, on the retry
\* path and on the direct path alike, is a string that is neither empty nor
\* blank.
C30_ReturnedUrlNotBlank ==
    (op = "capture_screenshot_url" /\ pc = "done" /\ outcome.ok) =>
        /\ outcome.value # None
        /\ Truthy(Strip(outcome.value))

\* What the provider said about its failure: the error_message of a JSON
\* answer, else the (truncated) text of the answer
ProviderErrorText(resp) ==
    IF resp.parsed /\ HasKey(resp.data, "error_message") THEN resp.data["error_message"]
    ELSE Take(resp.text, TextLimit)

\* C22: whenever a capture provider answers with a status other than 200, the
\* error raised holds the status code and the provider's error message or
\* (truncated) body, on the ScreenshotOne and on the ZenRows path.
C22_Non200CarriesStatusAndBody ==
    (pc = "done" /\ req.net /\ req.status # 200) =>
        /\ ~outcome.ok
        /\ Contains(outcome.err.msg, <<StatusStr(req.status)>>)
        /\ op = "_call_screenshotone_api" =>
              Contains(outcome.err.msg, ProviderErrorText(req))
        /\ op = "capture_screenshot_with_zenrows" =>
              Contains(outcome.err.msg, Take(Text(req.content), TextLimit))

\* The phrases a request asks the provider to fail on
GuardPhrases(params) ==
    IF "fail_if_content_contains" \in DOMAIN params
    THEN {params["fail_if_content_contains"]} ELSE {}

\* C26: every request sent to ScreenshotOne carries the fail-if-content-contains
\* guard for both phrases written in the code, 'Verify you are human' and
\* 'blocked'.
C26_BothGuardPhrasesSent ==
    \A i \in ProviderRequests :
        /\ <<"Verify you are human">> \in GuardPhrases(http[i].params)
        /\ <<"blocked">> \in GuardPhrases(http[i].params)

\* C21: every external call is bounded by a timeout, so every request
\* eventually returns or raises, even when a provider never answers.
C21_EveryRequestEnds == <>(pc = "done")

\* C27: when the S3 backend is called without a key, the key it writes under is
\* a generated identifier followed by '.jpg' for image/jpeg content and by
\* '.png' for image/png content.
C27_GeneratedKeyExtension ==
    \A i \in S3Writes :
        LET a == calls[writes[i].thread].args
        IN  ~Truthy(a.key) =>
              \E u \in Uuids :
                 /\ a.content_type = <<"image/", "jpeg">> =>
                       writes[i].key = u \o <<".", "j", "p", "g">>
                 /\ a.content_type = <<"image/", "png">> =>
                       writes[i].key = u \o <<".", "p", "n", "g">>

\* A PNG was uploaded without a key.
C27_Witness ==
    /\ Len(writes) = 1
    /\ writes[1].api = "s3"
    /\ calls[1].args.key = None
    /\ calls[1].args.content_type = <<"image/", "png">>
    /\ writes[1].key = <<"f", "f", ".", "p", "n", "g">>

\* C23: every failure raised by the capture or the storage stage while a route
\* serves a request becomes an HTTP 500 response of that request, with the
\* failure's text in its detail; no exception leaves the handler, and a request
\* whose service call has ended is always answered.
C23_FailuresBecome500 ==
    /\ (op \in RouteOps /\ pc = "done") => ENABLED Respond
    /\ (pc = "responded" /\ ~outcome.ok) =>
          /\ response.status = 500
          /\ response.body = NoBody
          /\ Contains(response.detail, outcome.err.msg)

\* The ZenRows capture failed on the network and the route answered 500.
C23_Witness ==
    /\ op = "capture_and_upload_with_zenrows"
    /\ pc = "responded"
    /\ outcome.err.type = "RequestException"
    /\ response.status = 500
    /\ StartsWith(response.detail, FailurePrefix(op))

\* The Authorization header has the form 'Bearer <token>'; the token it holds
HasBearerForm(h) ==
    /\ h # None
    /\ Len(h) > Len(BearerWord)
    /\ Lower(SubSeq(h, 1, Len(BearerWord))) = Lower(BearerWord)
    /\ h[Len(BearerWord) + 1] = " "

BearerToken(h) == Strip(SubSeq(h, Len(BearerWord) + 2, Len(h)))

\* The request must be rejected: authentication is required and the header is
\* missing, not of the form 'Bearer <token>', or holds another token
MustBeRejected ==
    /\ op \in RouteOps
    /\ API_TOKEN_REQUIRED(env)
    /\ \/ req.request.authorization \in {None, <<>>}
       \/ ~HasBearerForm(req.request.authorization)
       \/ BearerToken(req.request.authorization) # API_TOKEN(env)

\* C24: when authentication is required, a request whose Authorization header
\* is missing, is not of the form 'Bearer <token>' or holds a token other than
\* API_TOKEN is rejected (401, or 500 when API_TOKEN itself is not set) before
\* the handler runs: no capture-provider request and no storage call is made.
C24_RejectedBeforeCore ==
    (MustBeRejected /\ pc # "auth") =>
        /\ pc = "responded"
        /\ response.status = IF Truthy(API_TOKEN(env)) THEN 401 ELSE 500
        /\ response.body = NoBody
        /\ attempts = <<>>
        /\ http = <<>>
        /\ uploads = <<>>
        /\ writes = <<>>
        /\ outcome = Return(None)

\* A well-formed header with another token was answered 401; nothing was sent.
C24_Witness ==
    /\ op = "capture_and_upload_screenshot"
    /\ pc = "responded"
    /\ req.request.authorization = BearerWord \o <<" ">> \o OtherToken
    /\ response.status = 401
    /\ http = <<>>

\* C25: when SCREENSHOTONE_ACCESS_KEY is unset, get_screenshot_url_with_retry
\* raises ValueError, so that the route answers through its 'Configuration
\* error' branch.
C25_MissingKeyReportedAsConfiguration ==
    (op \in RouteOps /\ OnRetryPath /\ ~KeyConfigured /\ pc = "responded" /\ attempts # <<>>) =>
        /\ IsValueError(outcome.err)
        /\ StartsWith(response.detail, <<"Configuration error: ">>)

\* request folder > default_folder argument > CLOUDINARY_FOLDER > none
FolderByPrecedence(folder, default_folder, env_folder) ==
    IF Truthy(folder) THEN folder
    ELSE IF Truthy(default_folder) THEN default_folder
    ELSE IF Truthy(env_folder) THEN env_folder
    ELSE None

\* C28: every upload is called with the folder chosen by the precedence
\* request folder > default_folder argument > CLOUDINARY_FOLDER > none, and the
\* folder in the response of POST /capture/and-upload is the folder the upload
\* was called with.
C28_FolderPrecedenceAndEcho ==
    /\ op = "upload_screenshot_from_url" =>
          \A i \in 1..Len(uploads) :
              uploads[i].folder =
                  FolderByPrecedence(req.folder, req.default_folder, env.CLOUDINARY_FOLDER)
    /\ op = "capture_and_upload_screenshot" =>
          /\ \A i \in 1..Len(uploads) :
                uploads[i].folder =
                    FolderByPrecedence(req.request.folder, None, env.CLOUDINARY_FOLDER)
          /\ (pc = "responded" /\ response.status = 200) =>
                /\ Len(uploads) = 1
                /\ response.body.folder = uploads[1].folder

\* An empty request folder: the image went to CLOUDINARY_FOLDER, which the
\* response echoes.
C28_Witness ==
    /\ op = "capture_and_upload_screenshot"
    /\ pc = "responded"
    /\ response.status = 200
    /\ req.request.folder = <<>>
    /\ uploads[1].folder = EnvFolderValue
    /\ response.body.folder = EnvFolderValue

====
